---- MODULE Spec2Model ----
(***************************************************************************)
(* State-machine model of the LED ring firmware: the orchestration loop of *)
(* main.py with the subsystems it polls (led_ring.py, button_handler.py,   *)
(* mqtt_handler.py, ota_handler.py, web_server.py, wifi_manager.py).       *)
(***************************************************************************)
EXTENDS Integers, Sequences, FiniteSets, TLC

(***************************************************************************)
(* Program constants                                                       *)
(***************************************************************************)
MAX_RETRIES == 3
DEBOUNCE_TIME == 50
LONG_PRESS_TIME == 2500
VERY_LONG_PRESS_TIME == 7000
heartbeat_interval == 60000
wifi_check_interval == 5000
num_leds == 24
OTA_CHECK_MIN_HOURS == 22
OTA_CHECK_MAX_HOURS == 26

\* time.ticks_ms() counts modulo 2^30; time.ticks_diff is the signed wrapped
\* difference in [-2^29, 2^29).
TICKS_PERIOD == 2^30
TICKS_HALF == 2^29

ticks_add(t, d) == (t + d) % TICKS_PERIOD

ticks_diff(a, b) == ((a - b + TICKS_HALF) % TICKS_PERIOD) - TICKS_HALF

Min2(a, b) == IF a < b THEN a ELSE b
Max2(a, b) == IF a > b THEN a ELSE b

(***************************************************************************)
(* Dynamically typed values (what json.loads returns, what the setters     *)
(* receive): tagged so that the type tests of the code can be modelled.    *)
(***************************************************************************)
JInt(n) == [t |-> "int", v |-> n]
JStr(s) == [t |-> "str", v |-> s]
JList(l) == [t |-> "list", v |-> l]
JNull == [t |-> "null"]

IsNum(x) == x.t = "int"

(***************************************************************************)
(* constants.py: COLORS (the part of the palette the model's inputs use;   *)
(* 'lime' duplicates 'green' as in the source)                             *)
(***************************************************************************)
ColorNames == {"red", "green", "blue", "yellow", "cyan", "white", "lime", "off"}

COLORS(name) ==
    CASE name = "red" -> <<255, 0, 0>>
      [] name = "green" -> <<0, 255, 0>>
      [] name = "blue" -> <<0, 0, 255>>
      [] name = "yellow" -> <<255, 255, 0>>
      [] name = "cyan" -> <<0, 255, 255>>
      [] name = "white" -> <<255, 255, 255>>
      [] name = "lime" -> <<0, 255, 0>>
      [] name = "off" -> <<0, 0, 0>>

\* str.lower() on the strings the model uses
Lower(s) ==
    CASE s = "RED" -> "red"
      [] s = "Blue" -> "blue"
      [] s = "CW" -> "cw"
      [] s = "Clockwise" -> "clockwise"
      [] s = "Reverse" -> "reverse"
      [] OTHER -> s

(***************************************************************************)
(* led_ring.py: LEDRing                                                    *)
(***************************************************************************)
LEDRing ==
    [ position |-> 0,
      last_update |-> 0,
      update_interval |-> JInt(50),
      brightness |-> 50,
      active |-> TRUE,
      mode |-> "chase",
      hue |-> 0,
      direction |-> 1,
      chase_color |-> <<255, 0, 0>>,
      comet_color |-> <<0, 150, 255>>,
      spinner_colors |-> << <<255, 0, 0>>, <<0, 255, 0>>, <<0, 0, 255>> >>,
      solid_color |-> <<255, 255, 255>>,
      flash_color |-> <<255, 0, 0>>,
      flash_state |-> FALSE,
      pulse_color |-> <<0, 150, 255>>,
      pulse_min_brightness |-> 10,
      pulse_max_brightness |-> 255,
      pulse_current |-> 10,
      pulse_direction |-> 1,
      pulse_step |-> 5 ]

set_update_interval(r, ms) == [r EXCEPT !.update_interval = ms]

\* max(0, min(255, brightness)) raises TypeError unless brightness is a number
set_brightness_raises(b) == ~IsNum(b)

set_brightness(r, b) == [r EXCEPT !.brightness = Max2(0, Min2(255, b.v))]

\* faulty variant: any number is taken as a direction
set_direction_any_number(r, direction) ==
    IF direction.t = "str"
    THEN LET d == Lower(direction.v) IN
         CASE d \in {"cw", "clockwise"} -> [r EXCEPT !.direction = 1]
           [] d \in {"ccw", "counter-clockwise", "counterclockwise"} ->
                [r EXCEPT !.direction = -1]
           [] d = "reverse" -> [r EXCEPT !.direction = -r.direction]
           [] OTHER -> r
    ELSE IF direction.t = "int"
         THEN [r EXCEPT !.direction = direction.v]
         ELSE r

\* lines 47-66
set_direction(r, direction) ==
    IF direction.t = "str"
    THEN LET d == Lower(direction.v) IN
         CASE d \in {"cw", "clockwise"} -> [r EXCEPT !.direction = 1]
           [] d \in {"ccw", "counter-clockwise", "counterclockwise"} ->
                [r EXCEPT !.direction = -1]
           [] d = "reverse" -> [r EXCEPT !.direction = -r.direction]
           [] OTHER -> r
    ELSE IF direction.t = "int" /\ direction.v \in {1, -1}
         THEN [r EXCEPT !.direction = direction.v]
         ELSE r

reverse_direction(r) == [r EXCEPT !.direction = -r.direction]

set_mode(r, mode) ==
    [r EXCEPT !.mode = mode, !.position = 0, !.flash_state = FALSE]

_parse_color(color) ==
    IF color.t = "str"
    THEN IF Lower(color.v) \in ColorNames THEN COLORS(Lower(color.v))
         ELSE <<255, 0, 0>>
    ELSE IF color.t = "list" /\ Len(color.v) = 3 THEN color.v
         ELSE <<255, 0, 0>>

set_chase_color(r, color) == [r EXCEPT !.chase_color = _parse_color(color)]
set_comet_color(r, color) == [r EXCEPT !.comet_color = _parse_color(color)]
set_solid_color(r, color) == [r EXCEPT !.solid_color = _parse_color(color)]
set_flash_color(r, color) == [r EXCEPT !.flash_color = _parse_color(color)]
set_pulse_color(r, color) == [r EXCEPT !.pulse_color = _parse_color(color)]

\* colors: a sequence of color values
set_spinner_colors(r, colors) ==
    [r EXCEPT !.spinner_colors =
        [i \in 1..Len(colors) |-> _parse_color(colors[i])]]

\* faulty variant: the two bounds are clamped but never exchanged
set_pulse_range_no_swap(r, min_brightness, max_brightness) ==
    LET lo == Max2(0, Min2(255, min_brightness))
        hi == Max2(0, Min2(255, max_brightness))
    IN  [r EXCEPT !.pulse_min_brightness = lo, !.pulse_max_brightness = hi]

set_pulse_range(r, min_brightness, max_brightness) ==
    LET lo == Max2(0, Min2(255, min_brightness))
        hi == Max2(0, Min2(255, max_brightness))
    IN  IF lo > hi
        THEN [r EXCEPT !.pulse_min_brightness = hi, !.pulse_max_brightness = lo]
        ELSE [r EXCEPT !.pulse_min_brightness = lo, !.pulse_max_brightness = hi]

set_pulse_step(r, step) == [r EXCEPT !.pulse_step = Max2(1, Min2(50, step))]

rainbow_cycle(r) == [r EXCEPT !.hue = (r.hue + 2) % 256]

flashing(r) == [r EXCEPT !.flash_state = ~r.flash_state]

\* faulty variant: the direction flips at a bound but the value is not clamped
pulse_unclamped(r) ==
    LET cur == r.pulse_current + r.pulse_step * r.pulse_direction IN
    IF cur >= r.pulse_max_brightness
    THEN [r EXCEPT !.pulse_current = cur, !.pulse_direction = -1]
    ELSE IF cur <= r.pulse_min_brightness
         THEN [r EXCEPT !.pulse_current = cur, !.pulse_direction = 1]
         ELSE [r EXCEPT !.pulse_current = cur]

pulse(r) ==
    LET cur == r.pulse_current + r.pulse_step * r.pulse_direction IN
    IF cur >= r.pulse_max_brightness
    THEN [r EXCEPT !.pulse_current = r.pulse_max_brightness,
                   !.pulse_direction = -1]
    ELSE IF cur <= r.pulse_min_brightness
         THEN [r EXCEPT !.pulse_current = r.pulse_min_brightness,
                        !.pulse_direction = 1]
         ELSE [r EXCEPT !.pulse_current = cur]

\* ring.update() raises TypeError when the elapsed time is compared with an
\* update_interval that is not a number
update_raises(r) == r.active /\ ~IsNum(r.update_interval)

update(r, now) ==
    IF ~r.active THEN r
    ELSE IF ticks_diff(now, r.last_update) >= r.update_interval.v
    THEN LET r1 == [r EXCEPT !.last_update = now]
             r2 == CASE r1.mode = "flash" -> flashing(r1)
                     [] r1.mode = "pulse" -> pulse(r1)
                     [] r1.mode = "rainbow_cycle" -> rainbow_cycle(r1)
                     [] OTHER -> r1
         IN  IF r2.mode \in {"chase", "comet", "spinner"}
             THEN [r2 EXCEPT !.position =
                       (r2.position + r2.direction) % num_leds]
             ELSE IF r2.mode = "rainbow_cycle"
                  THEN [r2 EXCEPT !.hue = (r2.hue + 2 * r2.direction) % 256]
                  ELSE r2
    ELSE r

\* faulty variant: the snapshot leaves the brightness out
save_state_no_brightness(r) ==
    [ mode |-> r.mode,
      direction |-> r.direction,
      update_interval |-> r.update_interval,
      chase_color |-> r.chase_color,
      comet_color |-> r.comet_color,
      spinner_colors |-> r.spinner_colors,
      solid_color |-> r.solid_color,
      flash_color |-> r.flash_color,
      pulse_color |-> r.pulse_color,
      pulse_min_brightness |-> r.pulse_min_brightness,
      pulse_max_brightness |-> r.pulse_max_brightness,
      pulse_step |-> r.pulse_step ]

save_state(r) ==
    [ mode |-> r.mode,
      direction |-> r.direction,
      brightness |-> r.brightness,
      update_interval |-> r.update_interval,
      chase_color |-> r.chase_color,
      comet_color |-> r.comet_color,
      spinner_colors |-> r.spinner_colors,
      solid_color |-> r.solid_color,
      flash_color |-> r.flash_color,
      pulse_color |-> r.pulse_color,
      pulse_min_brightness |-> r.pulse_min_brightness,
      pulse_max_brightness |-> r.pulse_max_brightness,
      pulse_step |-> r.pulse_step ]

\* state.get(key, current value)
StateGet(state, key, cur) == IF key \in DOMAIN state THEN state[key] ELSE cur

\* faulty variant: a restore that leaves the animation mode as it is
restore_state_keeps_mode(r, state) ==
    IF state = JNull \/ DOMAIN state = {} THEN r
    ELSE [r EXCEPT
            !.direction = StateGet(state, "direction", r.direction),
            !.brightness = StateGet(state, "brightness", r.brightness),
            !.update_interval =
                StateGet(state, "update_interval", r.update_interval),
            !.chase_color = StateGet(state, "chase_color", r.chase_color),
            !.comet_color = StateGet(state, "comet_color", r.comet_color),
            !.spinner_colors =
                StateGet(state, "spinner_colors", r.spinner_colors),
            !.solid_color = StateGet(state, "solid_color", r.solid_color),
            !.flash_color = StateGet(state, "flash_color", r.flash_color),
            !.pulse_color = StateGet(state, "pulse_color", r.pulse_color),
            !.pulse_min_brightness =
                StateGet(state, "pulse_min_brightness", r.pulse_min_brightness),
            !.pulse_max_brightness =
                StateGet(state, "pulse_max_brightness", r.pulse_max_brightness),
            !.pulse_step = StateGet(state, "pulse_step", r.pulse_step),
            !.position = 0]

\* the snapshot dict; an empty dict or None is falsy and restores nothing
restore_state(r, state) ==
    IF state = JNull \/ DOMAIN state = {} THEN r
    ELSE [r EXCEPT
            !.mode = StateGet(state, "mode", r.mode),
            !.direction = StateGet(state, "direction", r.direction),
            !.brightness = StateGet(state, "brightness", r.brightness),
            !.update_interval =
                StateGet(state, "update_interval", r.update_interval),
            !.chase_color = StateGet(state, "chase_color", r.chase_color),
            !.comet_color = StateGet(state, "comet_color", r.comet_color),
            !.spinner_colors =
                StateGet(state, "spinner_colors", r.spinner_colors),
            !.solid_color = StateGet(state, "solid_color", r.solid_color),
            !.flash_color = StateGet(state, "flash_color", r.flash_color),
            !.pulse_color = StateGet(state, "pulse_color", r.pulse_color),
            !.pulse_min_brightness =
                StateGet(state, "pulse_min_brightness", r.pulse_min_brightness),
            !.pulse_max_brightness =
                StateGet(state, "pulse_max_brightness", r.pulse_max_brightness),
            !.pulse_step = StateGet(state, "pulse_step", r.pulse_step),
            !.position = 0]

(***************************************************************************)
(* button_handler.py: check_button                                         *)
(***************************************************************************)
__button_normal_state__ == 0

\* faulty variant: any later poll may accept a change
DebounceElapsed_any(current_time, state_change_time) ==
    ticks_diff(current_time, state_change_time) > 0

\* line 35: enough time has passed since the last accepted change
DebounceElapsed(current_time, state_change_time) ==
    ticks_diff(current_time, state_change_time) > DEBOUNCE_TIME

\* faulty variant: the thresholds themselves count as the shorter press
ClassifyPress_strict(press_duration) ==
    IF press_duration > VERY_LONG_PRESS_TIME THEN "very_long"
    ELSE IF press_duration > LONG_PRESS_TIME THEN "long"
    ELSE "short"

\* lines 54-62
ClassifyPress(press_duration) ==
    IF press_duration >= VERY_LONG_PRESS_TIME THEN "very_long"
    ELSE IF press_duration >= LONG_PRESS_TIME THEN "long"
    ELSE "short"

\* b: the module globals [last_state, press_start, state_change_time];
\* returns the globals after the call and the value returned ("none" for None)
check_button(b, current_state, current_time) ==
    IF DebounceElapsed(current_time, b.state_change_time)
    THEN IF b.last_state # current_state
            /\ current_state = 1 - __button_normal_state__
         THEN [last_state |-> current_state,
               press_start |-> current_time,
               state_change_time |-> current_time,
               result |-> "none"]
         ELSE IF b.last_state # current_state
                 /\ current_state = __button_normal_state__
         THEN LET press_duration == ticks_diff(current_time, b.press_start) IN
              [last_state |-> current_state,
               press_start |-> b.press_start,
               state_change_time |-> current_time,
               result |-> ClassifyPress(press_duration)]
         ELSE IF b.last_state # current_state
         THEN [last_state |-> current_state,
               press_start |-> b.press_start,
               state_change_time |-> current_time,
               result |-> "none"]
         ELSE [last_state |-> b.last_state,
               press_start |-> b.press_start,
               state_change_time |-> b.state_change_time,
               result |-> "none"]
    ELSE [last_state |-> b.last_state,
          press_start |-> b.press_start,
          state_change_time |-> b.state_change_time,
          result |-> "none"]

\* the topic suffix mqtt_publish_button_press publishes on
ButtonTopic(result) ==
    CASE result = "short" -> <<"button", "1">>
      [] result = "long" -> <<"button", "2">>
      [] result = "very_long" -> <<"button", "3">>

(***************************************************************************)
(* mqtt_handler.py: payload parsing and the ring command handlers.         *)
(* A payload is [k |-> "plain", s |-> text], [k |-> "bad", s |-> text]     *)
(* (starts with '{', json.loads raises) or [k |-> "json", d |-> object],   *)
(* the object a record of tagged values.                                   *)
(***************************************************************************)
DictGet(d, key, default) == IF key \in DOMAIN d THEN d[key] ELSE default

\* faulty variant: a missing brightness key defaults to 50 instead of None
_parse_command_payload_defaults(payload) ==
    IF payload.k = "json"
    THEN [color |-> DictGet(payload.d, "color", JStr("white")),
          speed |-> DictGet(payload.d, "speed", JNull),
          brightness |-> DictGet(payload.d, "brightness", JInt(50)),
          direction |-> DictGet(payload.d, "direction", JNull)]
    ELSE [color |-> IF payload.s # "" THEN JStr(payload.s) ELSE JStr("white"),
          speed |-> JNull,
          brightness |-> JInt(50),
          direction |-> JNull]

_parse_command_payload(payload) ==
    IF payload.k = "json"
    THEN [color |-> DictGet(payload.d, "color", JStr("white")),
          speed |-> DictGet(payload.d, "speed", JNull),
          brightness |-> DictGet(payload.d, "brightness", JNull),
          direction |-> DictGet(payload.d, "direction", JNull)]
    ELSE [color |-> IF payload.s # "" THEN JStr(payload.s) ELSE JStr("white"),
          speed |-> JNull,
          brightness |-> JNull,
          direction |-> JNull]

\* returns [r |-> ring after the call, raised |-> an exception left it]
_apply_common_settings(r, params) ==
    LET r1 == IF params.speed # JNull
              THEN set_update_interval(r, params.speed) ELSE r
    IN  IF params.brightness # JNull /\ set_brightness_raises(params.brightness)
        THEN [r |-> r1, raised |-> TRUE]
        ELSE LET r2 == IF params.brightness # JNull
                       THEN set_brightness(r1, params.brightness) ELSE r1
                 r3 == IF params.direction # JNull
                       THEN set_direction(r2, params.direction) ELSE r2
             IN  [r |-> r3, raised |-> FALSE]

ring_chase(r, payload) ==
    LET params == _parse_command_payload(payload)
        a == _apply_common_settings(r, params)
    IN  IF a.raised THEN a.r
        ELSE set_mode(set_chase_color(a.r, params.color), "chase")

ring_static(r, payload) ==
    LET params == _parse_command_payload(payload)
        a == _apply_common_settings(r, params)
    IN  IF a.raised THEN a.r
        ELSE set_mode(set_solid_color(a.r, params.color), "solid")

ring_flash(r, payload) ==
    LET params == _parse_command_payload(payload)
        a == _apply_common_settings(r, params)
    IN  IF a.raised THEN a.r
        ELSE set_mode(set_flash_color(a.r, params.color), "flash")

ring_comet(r, payload) ==
    LET params == _parse_command_payload(payload)
        a == _apply_common_settings(r, params)
    IN  IF a.raised THEN a.r
        ELSE set_mode(set_comet_color(a.r, params.color), "comet")

ring_reset(r) ==
    set_mode(
        set_chase_color(
            set_direction(
                set_update_interval(set_brightness(r, JInt(50)), JInt(30)),
                JStr("cw")),
            JStr("green")),
        "chase")

\* a value is truthy unless it is None, 0, "" or an empty list
Truthy(x) ==
    CASE x.t = "null" -> FALSE
      [] x.t = "int" -> x.v # 0
      [] x.t = "str" -> x.v # ""
      [] x.t = "list" -> Len(x.v) > 0

ring_spinner(r, payload) ==
    LET params == _parse_command_payload(payload)
        colors == IF payload.k = "json" THEN DictGet(payload.d, "colors", JNull)
                  ELSE JNull
    IN  IF Truthy(colors) /\ colors.t # "list"
        THEN r    \* iterating a number raises; the callback drops the command
        ELSE LET r1 == IF Truthy(colors)
                       THEN set_spinner_colors(r, colors.v)
                       ELSE set_spinner_colors(r,
                                <<params.color, params.color, params.color>>)
                 a == _apply_common_settings(r1, params)
             IN  IF a.raised THEN a.r ELSE set_mode(a.r, "spinner")

ring_rainbow(r, payload) ==
    LET params == _parse_command_payload(payload)
        a == _apply_common_settings(r, params)
    IN  IF a.raised THEN a.r ELSE set_mode(a.r, "rainbow_cycle")

ring_pulse(r, payload) ==
    LET params == _parse_command_payload(payload)
        d == IF payload.k = "json" THEN payload.d ELSE [x \in {} |-> JNull]
        min_val == DictGet(d, "min", JInt(10))
        max_val == DictGet(d, "max", JInt(255))
        hasRange == "min" \in DOMAIN d \/ "max" \in DOMAIN d
        rangeRaises == hasRange /\ ~(IsNum(min_val) /\ IsNum(max_val))
        r1 == IF hasRange /\ ~rangeRaises
              THEN set_pulse_range(r, min_val.v, max_val.v) ELSE r
        \* the try block around range and step is left at the first exception
        r2 == IF ~rangeRaises /\ "step" \in DOMAIN d /\ IsNum(d["step"])
              THEN set_pulse_step(r1, d["step"].v) ELSE r1
        a == _apply_common_settings(r2, params)
    IN  IF a.raised THEN a.r
        ELSE set_mode(set_pulse_color(a.r, params.color), "pulse")

\* 'ring' in topic_str / 'ota' in topic_str: a substring test on the whole
\* topic, tabulated for the topic segments the model uses
SegHasRing(seg) == seg \in {"ring", "spring"}
SegHasOta(seg) == seg \in {"ota", "rotation"}
TopicHasRing(topic) == \E i \in 1..Len(topic) : SegHasRing(topic[i])
TopicHasOta(topic) == \E i \in 1..Len(topic) : SegHasOta(topic[i])

\* mqtt_callback: [ring |-> ring after the command,
\*                 ota |-> the OTA handler called, "none" if none]
mqtt_callback(r, topic, payload) ==
    LET command == topic[Len(topic)] IN
    IF Len(topic) < 2 THEN [ring |-> r, ota |-> "none"]
    ELSE IF TopicHasRing(topic)
    THEN [ring |-> CASE command = "chase" -> ring_chase(r, payload)
                     [] command = "static" -> ring_static(r, payload)
                     [] command = "flash" -> ring_flash(r, payload)
                     [] command = "comet" -> ring_comet(r, payload)
                     [] command = "spinner" -> ring_spinner(r, payload)
                     [] command = "rainbow" -> ring_rainbow(r, payload)
                     [] command = "pulse" -> ring_pulse(r, payload)
                     [] command = "reset" -> ring_reset(r)
                     [] OTHER -> r,
          ota |-> "none"]
    ELSE IF TopicHasOta(topic)
    THEN [ring |-> r,
          ota |-> IF command \in {"check", "update", "status"}
                  THEN command ELSE "none"]
    ELSE [ring |-> r, ota |-> "none"]

\* MQTT topic filter matching as the broker does it: '#' matches the rest
TopicMatches(filter, topic) ==
    \/ filter = topic
    \/ /\ Len(filter) >= 1
       /\ filter[Len(filter)] = "#"
       /\ Len(topic) >= Len(filter) - 1
       /\ SubSeq(topic, 1, Len(filter) - 1) = SubSeq(filter, 1, Len(filter) - 1)

(***************************************************************************)
(* ota_handler.py, as far as the orchestration loop sees it: the schedule, *)
(* the gating by the OTA config and the outcome of a check or an update.   *)
(* env is what the update server does during the call:                     *)
(*   env.manifest: "fail" (no manifest), "malformed" (valid JSON that is   *)
(*   not an object: manifest.get raises), "current" (version not newer),   *)
(*   "newer" (a newer version with files);                                 *)
(*   env.downloads_ok: every listed file downloads.                        *)
(***************************************************************************)
OtaEnvs ==
    { [manifest |-> "fail", downloads_ok |-> FALSE],
      [manifest |-> "malformed", downloads_ok |-> FALSE],
      [manifest |-> "current", downloads_ok |-> FALSE],
      [manifest |-> "newer", downloads_ok |-> FALSE],
      [manifest |-> "newer", downloads_ok |-> TRUE] }

\* A version string is modelled by what str.split('.') makes of it: the
\* sequence of its components, each a sequence of characters.
Digits == <<"0", "1", "2", "3", "4", "5", "6", "7", "8", "9">>

\* int(x) raises ValueError unless x is a number: over the characters used
\* here (digits and letters), a non-empty run of digits
IntParses(x) ==
    /\ x # << >>
    /\ \A k \in DOMAIN x : \E d \in DOMAIN Digits : Digits[d] = x[k]

\* int(x) of a run of digits, in base ten
RECURSIVE IntValue(_)
IntValue(x) ==
    IF x = << >> THEN 0
    ELSE IntValue(SubSeq(x, 1, Len(x) - 1)) * 10
             + (CHOOSE d \in DOMAIN Digits : Digits[d] = x[Len(x)]) - 1

\* lines 69-72: pad the shorter list with zeros
PadTo(parts, n) == parts \o [k \in 1..(n - Len(parts)) |-> 0]

\* Python's list comparison a > b
RECURSIVE ListGreater(_, _)
ListGreater(a, b) ==
    IF a = << >> THEN FALSE
    ELSE IF b = << >> THEN TRUE
    ELSE IF a[1] # b[1] THEN a[1] > b[1]
    ELSE ListGreater(Tail(a), Tail(b))

\* faulty variant: the lists are compared without padding
_compare_versions_unpadded(local, remote) ==
    IF \A k \in DOMAIN local : IntParses(local[k])
    THEN IF \A k \in DOMAIN remote : IntParses(remote[k])
         THEN ListGreater([k \in DOMAIN remote |-> IntValue(remote[k])],
                          [k \in DOMAIN local |-> IntValue(local[k])])
         ELSE FALSE
    ELSE FALSE

\* _compare_versions(local, remote): any exception gives False
_compare_versions(local, remote) ==
    IF \A k \in DOMAIN local : IntParses(local[k])
    THEN IF \A k \in DOMAIN remote : IntParses(remote[k])
         THEN LET local_parts == [k \in DOMAIN local |-> IntValue(local[k])]
                  remote_parts == [k \in DOMAIN remote |-> IntValue(remote[k])]
                  n == Max2(Len(local_parts), Len(remote_parts))
              IN  ListGreater(PadTo(remote_parts, n), PadTo(local_parts, n))
         ELSE FALSE
    ELSE FALSE

\* faulty variant: the interval comes out ten times too long, beyond what
\* ticks_diff can measure
_get_random_interval_long(bits) ==
    LET range_hours == OTA_CHECK_MAX_HOURS - OTA_CHECK_MIN_HOURS IN
    (OTA_CHECK_MIN_HOURS * 3600000 + (bits % (range_hours * 60)) * 60000) * 10

\* bits: the value of getrandbits(16)
_get_random_interval(bits) ==
    LET range_hours == OTA_CHECK_MAX_HOURS - OTA_CHECK_MIN_HOURS IN
    OTA_CHECK_MIN_HOURS * 3600000 + (bits % (range_hours * 60)) * 60000

\* [kind |-> "none" (returns None) | "info" | "raise",
\*  available, touched |-> _last_check_time was set to now]
check_for_updates(config, env) ==
    IF ~config.enabled \/ ~config.has_url
    THEN [kind |-> "none", available |-> FALSE, touched |-> FALSE]
    ELSE CASE env.manifest = "fail" ->
                [kind |-> "none", available |-> FALSE, touched |-> TRUE]
           [] env.manifest = "malformed" ->
                [kind |-> "raise", available |-> FALSE, touched |-> TRUE]
           [] env.manifest = "current" ->
                [kind |-> "info", available |-> FALSE, touched |-> TRUE]
           [] env.manifest = "newer" ->
                [kind |-> "info", available |-> TRUE, touched |-> TRUE]

\* faulty variant: the restart does not depend on the downloads
apply_update_always_resets(config, info, env) ==
    IF ~config.enabled THEN "false"
    ELSE IF info.kind # "info" \/ ~info.available THEN "false"
    ELSE "reset"

\* "reset": every file was downloaded, the version record is written and
\* machine.reset() is called; "false": the update was not applied
apply_update(config, info, env) ==
    IF ~config.enabled THEN "false"
    ELSE IF info.kind # "info" \/ ~info.available THEN "false"
    ELSE IF env.downloads_ok THEN "reset" ELSE "false"

\* init_ota(ring): [ring, last, next, outcome |-> "ok" | "reset" | "raise"]
init_ota(r, config, now, env, bits) ==
    LET next == _get_random_interval(bits) IN
    IF config.enabled /\ config.check_on_boot
    THEN LET r1 == set_pulse_color(set_mode(r, "pulse"), JStr("cyan"))
             c == check_for_updates(config, env)
             r2 == set_chase_color(set_mode(r1, "chase"), JStr("green"))
         IN  IF c.kind = "raise"
             THEN [ring |-> r1, last |-> now, next |-> next, outcome |-> "raise"]
             ELSE IF c.kind = "info" /\ c.available /\ config.auto_update
                     /\ apply_update(config, c, env) = "reset"
             THEN [ring |-> r1, last |-> now, next |-> next, outcome |-> "reset"]
             ELSE [ring |-> r2, last |-> now, next |-> next, outcome |-> "ok"]
    ELSE [ring |-> r, last |-> now, next |-> next, outcome |-> "ok"]

\* faulty variant: an available update is applied whatever auto_update says
periodic_check_always_applies(config, last, next, now, env, bits) ==
    LET next0 == IF next = 0 THEN _get_random_interval(bits) ELSE next
        fresh == _get_random_interval(bits)
    IN  IF ticks_diff(now, last) < next0
        THEN [last |-> last, next |-> next0, outcome |-> "idle",
              rescheduled |-> FALSE]
        ELSE IF ~config.enabled
        THEN [last |-> now, next |-> fresh, outcome |-> "done",
              rescheduled |-> TRUE]
        ELSE LET c == check_for_updates(config, env) IN
             IF c.kind = "raise"
             THEN [last |-> IF c.touched THEN now ELSE last,
                   next |-> next0, outcome |-> "raise",
                   rescheduled |-> FALSE]
             ELSE IF c.kind = "info" /\ c.available
                     /\ apply_update(config, c, env) = "reset"
             THEN [last |-> now, next |-> fresh, outcome |-> "reset",
                   rescheduled |-> TRUE]
             ELSE [last |-> now, next |-> fresh, outcome |-> "done",
                   rescheduled |-> TRUE]

\* periodic_check(): [last, next, outcome |-> "idle" (interval not elapsed) |
\*                    "done" | "reset" | "raise",
\*                    rescheduled |-> lines 366-367 or 374-375 ran]
periodic_check(config, last, next, now, env, bits) ==
    LET next0 == IF next = 0 THEN _get_random_interval(bits) ELSE next
        fresh == _get_random_interval(bits)
    IN  IF ticks_diff(now, last) < next0
        THEN [last |-> last, next |-> next0, outcome |-> "idle",
              rescheduled |-> FALSE]
        ELSE IF ~config.enabled
        THEN [last |-> now, next |-> fresh, outcome |-> "done",
              rescheduled |-> TRUE]
        ELSE LET c == check_for_updates(config, env) IN
             IF c.kind = "raise"
             THEN [last |-> IF c.touched THEN now ELSE last,
                   next |-> next0, outcome |-> "raise",
                   rescheduled |-> FALSE]
             ELSE IF c.kind = "info" /\ c.available /\ config.auto_update
                     /\ apply_update(config, c, env) = "reset"
             THEN [last |-> now, next |-> fresh, outcome |-> "reset",
                   rescheduled |-> TRUE]
             ELSE [last |-> now, next |-> fresh, outcome |-> "done",
                   rescheduled |-> TRUE]

\* _publish_ota_response: the topic suffixes published; client and config are
\* the module globals of mqtt_handler.py
_publish_ota_response(client, config, command) ==
    IF client # "None" /\ config # "None"
    THEN << <<"ota", command, "response">> >>
    ELSE << >>

\* ota_check / ota_update / ota_status called by mqtt_callback:
\* [published |-> topic suffixes, touched, outcome |-> "done" | "reset"];
\* an exception inside is caught by mqtt_callback
ota_command(command, client, mconfig, config, env) ==
    LET c == check_for_updates(config, env) IN
    CASE command = "status" ->
            [published |-> _publish_ota_response(client, mconfig, "status"),
             touched |-> FALSE, outcome |-> "done"]
      [] command = "check" ->
            [published |-> IF c.kind = "raise" THEN << >>
                           ELSE _publish_ota_response(client, mconfig, "check"),
             touched |-> c.touched, outcome |-> "done"]
      [] command = "update" ->
            [published |-> IF c.kind = "raise" THEN << >>
                           ELSE _publish_ota_response(client, mconfig, "update"),
             touched |-> c.touched,
             outcome |-> IF c.kind = "info" /\ c.available
                            /\ apply_update(config, c, env) = "reset"
                         THEN "reset" ELSE "done"]

(***************************************************************************)
(* web_server.py: handle_web_request.  A request is                        *)
(*   [kind |-> "none"]      no pending connection (accept raises OSError)  *)
(*   [kind |-> "recv_error"] recv or decode raises                         *)
(*   [kind |-> "configure", body, ssid, password, port, send_ok]           *)
(*        POST /configure; body: the request has a blank line and a body;  *)
(*        ssid, password: the form has the field; port: "absent", "ok" or  *)
(*        "bad" (int() raises); send_ok: cl.send succeeds                  *)
(*   [kind |-> "probe"]     a captive-portal detection path                *)
(*   [kind |-> "other"]     anything else                                  *)
(* Result: [result |-> the value returned, saved |-> config files written, *)
(*          responses |-> responses sent on the connection]                *)
(***************************************************************************)
handle_web_request(req) ==
    CASE req.kind = "none" ->
            [result |-> FALSE, saved |-> {}, responses |-> << >>]
      [] req.kind = "recv_error" ->
            [result |-> FALSE, saved |-> {}, responses |-> << >>]
      [] req.kind = "configure" ->
            IF req.body /\ req.ssid /\ req.password
            THEN IF req.port = "bad"
                 THEN [result |-> FALSE, saved |-> {"wifi"},
                       responses |-> << >>]
                 ELSE IF req.send_ok
                      THEN [result |-> TRUE, saved |-> {"wifi", "mqtt", "ota"},
                            responses |-> <<"success_page">>]
                      ELSE [result |-> FALSE, saved |-> {"wifi", "mqtt", "ota"},
                            responses |-> << >>]
            ELSE [result |-> FALSE, saved |-> {}, responses |-> << >>]
      [] req.kind = "probe" ->
            [result |-> FALSE, saved |-> {}, responses |-> <<"redirect">>]
      [] req.kind = "other" ->
            [result |-> FALSE, saved |-> {}, responses |-> <<"web_page">>]

(***************************************************************************)
(* main.py: the inputs of the orchestration model                          *)
(***************************************************************************)
\* bounds of the exploration
MaxIter == 2
MaxApIter == 1

\* load_mqtt_config(): the default topic 'esp32/test'
base_topic == <<"esp32", "test">>

\* main.py lines 91-102: the topic filters subscribed at startup
ring_topics ==
    { base_topic \o <<"ring", "chase">>,
      base_topic \o <<"ring", "static">>,
      base_topic \o <<"ring", "flash">>,
      base_topic \o <<"ring", "comet">>,
      base_topic \o <<"ring", "spinner">>,
      base_topic \o <<"ring", "rainbow">>,
      base_topic \o <<"ring", "pulse">>,
      base_topic \o <<"ring", "reset">>,
      base_topic \o <<"command">>,
      base_topic \o <<"button", "#">> }

\* faulty variant: the broker is pumped before the button is polled
LoopOrder_mqtt_first ==
    <<"update", "mqtt", "button", "heartbeat", "wifi", "ota">>

\* main.py lines 122-180: the order in which one pass of the connected loop
\* polls the subsystems
LoopOrder == <<"update", "button", "mqtt", "heartbeat", "wifi", "ota">>

\* main.py lines 224-252: the order of one pass of the AP loop
ApOrder == <<"button", "dns", "web", "update">>

\* how long one pass of the connected loop takes (sleep_ms(50) at least)
LoopSteps == {100, 5000, 93600000}

\* messages a peer publishes on the broker while the device is online
NoMsg == [topic |-> << >>, payload |-> [k |-> "plain", s |-> ""]]

\* the smaller choice of inputs of the whole-lifecycle specification
LifeMessages ==
    { [topic |-> base_topic \o <<"ring", "chase">>,
       payload |-> [k |-> "json", d |-> [speed |-> JStr("fast")]]],
      [topic |-> base_topic \o <<"button", "ota", "update">>,
       payload |-> [k |-> "plain", s |-> ""]] }

LifeSteps == {5000, 93600000}

Messages ==
    { [topic |-> base_topic \o <<"ring", "chase">>,
       payload |-> [k |-> "json",
                    d |-> [color |-> JStr("blue"), speed |-> JInt(40)]]],
      [topic |-> base_topic \o <<"ring", "chase">>,
       payload |-> [k |-> "json", d |-> [speed |-> JStr("fast")]]],
      [topic |-> base_topic \o <<"ring", "spinner">>,
       payload |-> [k |-> "json",
                    d |-> [colors |-> JList(<<JStr("green"), JStr("blue")>>),
                           direction |-> JStr("ccw")]]],
      [topic |-> base_topic \o <<"ota", "status">>,
       payload |-> [k |-> "plain", s |-> ""]],
      [topic |-> base_topic \o <<"ota", "update">>,
       payload |-> [k |-> "plain", s |-> ""]],
      [topic |-> base_topic \o <<"button", "ota", "check">>,
       payload |-> [k |-> "plain", s |-> ""]],
      [topic |-> base_topic \o <<"button", "ota", "update">>,
       payload |-> [k |-> "plain", s |-> ""]] }

\* the files an update manifest can list
FileNames == {"main.py", "led_ring.py"}

\* ota_config.json as load_ota_config() finds it
OtaConfigs ==
    { [enabled |-> FALSE, has_url |-> FALSE, check_on_boot |-> TRUE,
       auto_update |-> TRUE],
      [enabled |-> TRUE, has_url |-> TRUE, check_on_boot |-> TRUE,
       auto_update |-> TRUE] }

\* values of getrandbits(16)
RandBits == {0, 239}

WebRequests ==
    { [kind |-> "none"], [kind |-> "recv_error"], [kind |-> "probe"],
      [kind |-> "other"],
      [kind |-> "configure", body |-> TRUE, ssid |-> TRUE, password |-> TRUE,
       port |-> "ok", send_ok |-> TRUE],
      [kind |-> "configure", body |-> TRUE, ssid |-> TRUE, password |-> TRUE,
       port |-> "bad", send_ok |-> TRUE],
      [kind |-> "configure", body |-> TRUE, ssid |-> FALSE, password |-> TRUE,
       port |-> "ok", send_ok |-> TRUE],
      [kind |-> "configure", body |-> TRUE, ssid |-> TRUE, password |-> TRUE,
       port |-> "ok", send_ok |-> FALSE] }

\* the fields save_state / restore_state cover
Covered(r) ==
    [ mode |-> r.mode,
      direction |-> r.direction,
      brightness |-> r.brightness,
      update_interval |-> r.update_interval,
      chase_color |-> r.chase_color,
      comet_color |-> r.comet_color,
      spinner_colors |-> r.spinner_colors,
      solid_color |-> r.solid_color,
      flash_color |-> r.flash_color,
      pulse_color |-> r.pulse_color,
      pulse_min_brightness |-> r.pulse_min_brightness,
      pulse_max_brightness |-> r.pulse_max_brightness,
      pulse_step |-> r.pulse_step ]

VARIABLES
    pc,                 \* where main() is
    stage,              \* index into LoopOrder / ApOrder of the next poll
    polled,             \* subsystems polled so far in this pass
    iter,               \* passes of the connected or degraded loop so far
    ap_iter,            \* passes of the AP loop so far
    config,             \* load_config() found a WiFi configuration
    retry_count,
    connected,
    attempts,           \* the retry loop so far: "ok" / "fail" per
                        \* connect_to_wifi call, "sleep" per time.sleep(5)
    ring,
    mqtt_client,        \* main's global: "unset" before line 83, then
                        \* "None" or "client"
    callback_set,       \* mqtt_client.set_callback was called
    subscriptions,      \* the broker's topic filters for this session
    mh_mqtt_client,     \* mqtt_handler.mqtt_client
    mh_mqtt_config,     \* mqtt_handler.mqtt_config
    last_heartbeat,
    last_wifi_check,
    wifi_was_connected,
    saved_ring_state,
    now,                \* time.ticks_ms()
    __button_last_state__,
    __button_press_start__,
    __button_state_change_time__,
    button_press,       \* what check_button returned in this pass
    published,          \* topics the device published in this pass
    ota_called,         \* the OTA handler mqtt_callback called in this pump
    _ota_config,
    _last_check_time,
    _next_check_interval,
    fs,                 \* flash: what each updatable file name holds,
                        \* "old", "new" or "absent"
    tmp,                \* flash: what <name>.tmp holds, "absent",
                        \* "partial" or "new"
    version_record,     \* ota_version.json: "old" or "new"
    upd,                \* the running apply_update(): where it is and its
                        \* locals
    local_version,      \* check_for_updates: the version of ota_version.json
    remote_version,     \* check_for_updates: the version of the manifest
    update_available,   \* check_for_updates: "unset", "yes" or "no"
    calls,              \* the calls made on the ring on its own, in order
    ota_log,            \* the last periodic_check() call: its outcome and
                        \* whether it printed 'Next check in ...', that is,
                        \* drew a new interval; for the OTA call that
                        \* restarted the device, whether every download of
                        \* the update succeeded
    ap_active,          \* start_ap_mode() was called
    server_socket,      \* "None", "open" or "closed"
    dns_socket,
    saved_files,        \* config files written by the portal
    responses,          \* HTTP responses sent in this pass of the AP loop
    web_request,        \* the request the last handle_web_request() call met
    wifi_log,           \* what the last WiFi health poll of this pass found
    pre_loss,           \* Covered(ring) when the last loss poll began
    raised,             \* exceptions caught by the loop's except clause
    connect_calls,      \* mqtt_client.connect() calls of the except clause
    reconnect_result,   \* what the last of them did: "none", "ok", "failed"
    raw_level           \* the last value read from the button pin

vars ==
    << pc, stage, polled, iter, ap_iter, config, retry_count, connected,
       attempts, ring, mqtt_client, callback_set, subscriptions, mh_mqtt_client,
       mh_mqtt_config, last_heartbeat, last_wifi_check, wifi_was_connected,
       saved_ring_state, now, __button_last_state__, __button_press_start__,
       __button_state_change_time__, button_press, published, ota_called, _ota_config, _last_check_time, _next_check_interval,
       ota_log, fs, tmp, version_record, upd, local_version, remote_version,
       update_available, calls,
       ap_active, server_socket, dns_socket, saved_files, responses, web_request,
       wifi_log,
       pre_loss, raised, connect_calls, reconnect_result, raw_level >>

bootVars == << config, retry_count, connected, attempts >>
mqttVars == << mqtt_client, callback_set, subscriptions, mh_mqtt_client,
               mh_mqtt_config >>
wifiVars == << last_wifi_check, wifi_was_connected, saved_ring_state,
               wifi_log, pre_loss >>
buttonVars == << __button_last_state__, __button_press_start__,
                 __button_state_change_time__, raw_level >>
\* the variables of the functions exercised on their own
unitVars == << local_version, remote_version, update_available, calls >>
updVars == << fs, tmp, version_record, upd, unitVars >>
otaVars == << _ota_config, _last_check_time, _next_check_interval, ota_log,
             updVars >>
apVars == << ap_active, server_socket, dns_socket, saved_files, responses,
             web_request, ap_iter >>
excVars == << raised, connect_calls, reconnect_result >>

\* main.py lines 39-52: the state when main() reaches the configuration test
Init ==
    /\ pc = "start"
    /\ stage = 0
    /\ polled = << >>
    /\ iter = 0
    /\ ap_iter = 0
    /\ config \in BOOLEAN
    /\ retry_count = 0
    /\ connected = FALSE
    /\ attempts = << >>
    /\ ring = set_direction(
                 set_brightness(set_update_interval(LEDRing, JInt(30)),
                                JInt(50)),
                 JStr("cw"))
    /\ mqtt_client = "unset"
    /\ callback_set = FALSE
    /\ subscriptions = {}
    /\ mh_mqtt_client = "None"
    /\ mh_mqtt_config = "None"
    /\ last_heartbeat = 0
    /\ last_wifi_check = 0
    /\ wifi_was_connected = TRUE
    /\ saved_ring_state = JNull
    /\ now = 0
    /\ __button_last_state__ = 0
    /\ __button_press_start__ = 0
    /\ __button_state_change_time__ = 0
    /\ button_press = "none"
    /\ published = << >>
    /\ ota_called = "none"
    /\ _ota_config \in OtaConfigs
    /\ _last_check_time = 0
    /\ _next_check_interval = 0
    /\ ota_log = [outcome |-> "none", rescheduled |-> FALSE,
                  downloads_ok |-> FALSE]
    /\ fs = [f \in FileNames |-> "old"]
    /\ tmp = [f \in FileNames |-> "absent"]
    /\ version_record = "old"
    /\ local_version = << >>
    /\ remote_version = << >>
    /\ update_available = "unset"
    /\ calls = << >>
    /\ upd = [pc |-> "idle", files |-> << >>, i |-> 1, downloaded |-> << >>,
              success |-> TRUE, requested |-> << >>]
    /\ ap_active = FALSE
    /\ server_socket = "None"
    /\ dns_socket = "None"
    /\ saved_files = {}
    /\ responses = << >>
    /\ web_request = [kind |-> "none"]
    /\ wifi_log = "none"
    /\ pre_loss = JNull
    /\ raised = 0
    /\ connect_calls = 0
    /\ reconnect_result = "none"
    /\ raw_level = 0

(***************************************************************************)
(* main.py lines 54-73, 202-210: configuration test and WiFi retry loop    *)
(***************************************************************************)
LoadConfig ==
    /\ pc = "start"
    /\ IF config
       THEN /\ pc' = "connecting"
            /\ ring' = ring
       ELSE /\ pc' = "ap_start"
            /\ ring' = set_chase_color(set_mode(ring, "chase"), JStr("cyan"))
    /\ retry_count' = 0
    /\ connected' = FALSE
    /\ UNCHANGED << stage, polled, iter, config, attempts, mqttVars,
                    last_heartbeat, wifiVars, now, buttonVars, button_press,
                    published, ota_called, otaVars, apVars, excVars >>

\* the loop test of line 63
RetryLoopRuns(count, conn) == count < MAX_RETRIES /\ ~conn

\* faulty variant: a sleep after every failed attempt, the last included
RetrySleeps_always(count, conn) == ~conn

\* the test of line 69: sleep before the next attempt
RetrySleeps(count, conn) == ~conn /\ count < MAX_RETRIES

\* one pass of the retry loop; ok: connect_to_wifi returned True (one of
\* results)
WifiAttempt(results) ==
    /\ pc = "connecting"
    /\ RetryLoopRuns(retry_count, connected)
    /\ \E ok \in results :
         /\ retry_count' = retry_count + 1
         /\ connected' = ok
         /\ IF RetrySleeps(retry_count + 1, ok)
            THEN /\ attempts' = attempts \o <<"fail", "sleep">>
                 /\ now' = ticks_add(now, 35000)
            ELSE /\ attempts' = Append(attempts, IF ok THEN "ok" ELSE "fail")
                 /\ now' = ticks_add(now, IF ok THEN 1000 ELSE 30000)
    /\ UNCHANGED << pc, stage, polled, iter, config, ring, mqttVars,
                    last_heartbeat, wifiVars, buttonVars, button_press,
                    published, ota_called, otaVars, apVars, excVars >>

\* lines 73-79 and 202-206, up to the call of init_ota
WifiDone ==
    /\ pc = "connecting"
    /\ ~RetryLoopRuns(retry_count, connected)
    /\ IF connected
       THEN /\ pc' = "init_ota"
            /\ ring' = set_chase_color(set_mode(ring, "chase"), JStr("green"))
       ELSE /\ pc' = "ap_start"
            /\ ring' = set_chase_color(set_mode(ring, "chase"), JStr("red"))
    /\ UNCHANGED << stage, polled, iter, bootVars, mqttVars, last_heartbeat,
                    wifiVars, now, buttonVars, button_press, published,
                    ota_called, otaVars, apVars, excVars >>

\* line 79: init_ota(ring); an exception it lets escape ends main()
InitOta ==
    /\ pc = "init_ota"
    /\ \E env \in OtaEnvs, bits \in RandBits :
         LET o == init_ota(ring, _ota_config, now, env, bits) IN
         /\ ring' = o.ring
         /\ _last_check_time' = o.last
         /\ _next_check_interval' = o.next
         /\ pc' = CASE o.outcome = "ok" -> "mqtt_connect"
                    [] o.outcome = "reset" -> "reset"
                    [] o.outcome = "raise" -> "crashed"
         /\ ota_log' = IF o.outcome = "reset"
                        THEN [outcome |-> "reset", rescheduled |-> FALSE,
                              downloads_ok |-> env.downloads_ok]
                        ELSE ota_log
    /\ UNCHANGED << stage, polled, iter, bootVars, mqttVars, last_heartbeat,
                    wifiVars, now, buttonVars, button_press, published,
                    ota_called, _ota_config, updVars, apVars, excVars >>

\* faulty variant: without a broker the device falls back to the portal
AfterMqttConnect_portal(ok) == IF ok THEN "loop" ELSE "ap_start"

\* lines 85 and 191: the branch taken on the value of connect_to_mqtt
AfterMqttConnect(ok) == IF ok THEN "loop" ELSE "degraded"

\* lines 82-120 and 191-197; ok: connect_to_mqtt returned a client,
\* sub_ok: no subscribe call raised
ConnectMqtt ==
    /\ pc = "mqtt_connect"
    /\ \E ok \in BOOLEAN, sub_ok \in BOOLEAN :
         IF ok
         THEN /\ mqtt_client' = "client"
              /\ callback_set' = TRUE
              /\ published' = <<base_topic>>
              /\ IF sub_ok
                 THEN /\ subscriptions' = ring_topics
                      /\ pc' = AfterMqttConnect(ok)
                      /\ stage' = 1
                 ELSE /\ subscriptions' = {}
                      /\ pc' = "crashed"
                      /\ stage' = stage
              /\ ring' = ring
              /\ last_heartbeat' = now
              /\ last_wifi_check' = now
              /\ wifi_was_connected' = TRUE
              /\ saved_ring_state' = JNull
         ELSE /\ sub_ok
              /\ pc' = AfterMqttConnect(ok)
              /\ mqtt_client' = "None"
              /\ ring' = set_pulse_step(
                            set_pulse_range(
                               set_pulse_color(set_mode(ring, "pulse"),
                                               JStr("red")),
                               10, 100),
                            5)
              /\ UNCHANGED << callback_set, subscriptions,
                              published, stage, last_heartbeat,
                              last_wifi_check, wifi_was_connected,
                              saved_ring_state >>
    /\ UNCHANGED << polled, iter, bootVars, mh_mqtt_client, mh_mqtt_config,
                    wifi_log, pre_loss, now, buttonVars, button_press,
                    ota_called, otaVars, apVars, excVars >>

\* lines 198-201: the loop without MQTT
Degraded ==
    /\ pc = "degraded"
    /\ iter < MaxIter
    /\ ring' = update(ring, now)
    /\ \E d \in {5, 50} : now' = ticks_add(now, d)
    /\ iter' = iter + 1
    /\ UNCHANGED << pc, stage, polled, bootVars, mqttVars, last_heartbeat,
                    wifiVars, buttonVars, button_press, published, ota_called, otaVars, apVars, excVars >>

(***************************************************************************)
(* main.py lines 122-190: the connected main loop, one action per poll     *)
(***************************************************************************)
AtStage(name) ==
    /\ pc = "loop"
    /\ stage \in 1..Len(LoopOrder)
    /\ LoopOrder[stage] = name

\* the poll completed: go on to the next one
Polled(name) ==
    /\ pc' = "loop"
    /\ stage' = stage + 1
    /\ polled' = Append(polled, name)
    /\ UNCHANGED excVars

\* the poll raised: control is in the except clause of line 182
Raise ==
    /\ pc' = "reconnect"
    /\ raised' = raised + 1
    /\ UNCHANGED << stage, polled, connect_calls, reconnect_result >>

\* line 125: ring.update()
LoopUpdate ==
    /\ AtStage("update")
    /\ IF update_raises(ring)
       THEN Raise /\ ring' = ring
       ELSE Polled("update") /\ ring' = update(ring, now)
    /\ UNCHANGED << iter, bootVars, mqttVars, last_heartbeat, wifiVars, now,
                    buttonVars, button_press, published, ota_called,
                    otaVars, apVars >>

\* lines 128-135; level: button.value(), pub_ok: the publish did not raise
LoopButton(levels) ==
    /\ AtStage("button")
    /\ \E level \in levels, pub_ok \in BOOLEAN :
         LET b == check_button(
                     [last_state |-> __button_last_state__,
                      press_start |-> __button_press_start__,
                      state_change_time |-> __button_state_change_time__],
                     level, now)
         IN  /\ __button_last_state__' = b.last_state
             /\ __button_press_start__' = b.press_start
             /\ __button_state_change_time__' = b.state_change_time
             /\ button_press' = b.result
             /\ raw_level' = level
             /\ IF b.result = "none"
                THEN /\ pub_ok
                     /\ Polled("button")
                     /\ UNCHANGED << ring, published >>
                ELSE IF pub_ok
                THEN /\ Polled("button")
                     /\ published' =
                          Append(published, base_topic \o ButtonTopic(b.result))
                     /\ ring' = IF b.result = "short"
                                THEN reverse_direction(ring) ELSE ring
                ELSE /\ Raise
                     /\ UNCHANGED << ring, published >>
    /\ UNCHANGED << iter, bootVars, mqttVars, last_heartbeat, wifiVars, now,
                    ota_called, otaVars, apVars >>

\* the broker forwards a message to a session subscribed to its topic
Delivered(subs, topic) == \E f \in subs : TopicMatches(f, topic)

\* line 138: mqtt_client.check_msg(); ok: it did not raise; m: the message a
\* peer published since the last pump (one of msgs), NoMsg if none
LoopMqtt(msgs) ==
    /\ AtStage("mqtt")
    /\ \E ok \in BOOLEAN, m \in msgs \cup {NoMsg},
          env \in OtaEnvs :
         IF ~ok
         THEN /\ m = NoMsg
              /\ env.manifest = "fail"
              /\ Raise
              /\ UNCHANGED << ring, published, ota_called,
                              _last_check_time, ota_log >>
         ELSE /\ IF m # NoMsg /\ callback_set /\ Delivered(subscriptions, m.topic)
                 THEN LET cb == mqtt_callback(ring, m.topic, m.payload)
                          oc == ota_command(cb.ota, mh_mqtt_client,
                                            mh_mqtt_config, _ota_config, env)
                      IN  /\ ring' = cb.ring
                          /\ ota_called' = cb.ota
                          /\ IF cb.ota = "none"
                             THEN /\ env.manifest = "fail"
                                  /\ Polled("mqtt")
                                  /\ UNCHANGED << published, _last_check_time >>
                             ELSE /\ published' =
                                       published \o
                                       [i \in 1..Len(oc.published) |->
                                           base_topic \o oc.published[i]]
                                  /\ _last_check_time' =
                                       IF oc.touched THEN now
                                       ELSE _last_check_time
                                  /\ IF oc.outcome = "reset"
                                     THEN /\ pc' = "reset"
                                          /\ UNCHANGED << stage, polled,
                                                          excVars >>
                                     ELSE Polled("mqtt")
                 ELSE /\ env.manifest = "fail"
                      /\ Polled("mqtt")
                      /\ ota_called' = "none"
                      /\ UNCHANGED << ring, published, _last_check_time >>
              /\ ota_log' = IF pc' = "reset"
                             THEN [outcome |-> "reset", rescheduled |-> FALSE,
                                   downloads_ok |-> env.downloads_ok]
                             ELSE ota_log
    /\ UNCHANGED << iter, bootVars, mqttVars, last_heartbeat, wifiVars, now,
                    buttonVars, button_press, _ota_config,
                    _next_check_interval, updVars, apVars >>

\* faulty variant: the heartbeat shares the interval of the WiFi poll
HeartbeatDue_early(current_time, last) ==
    ticks_diff(current_time, last) >= wifi_check_interval

\* the test of line 142
HeartbeatDue(current_time, last) ==
    ticks_diff(current_time, last) >= heartbeat_interval

\* lines 141-151; pub_ok: the publish did not raise
LoopHeartbeat ==
    /\ AtStage("heartbeat")
    /\ \E pub_ok \in BOOLEAN :
         IF HeartbeatDue(now, last_heartbeat)
         THEN IF pub_ok
              THEN /\ Polled("heartbeat")
                   /\ published' = Append(published, base_topic \o <<"heartbeat">>)
                   /\ last_heartbeat' = now
              ELSE /\ Raise
                   /\ UNCHANGED << published, last_heartbeat >>
         ELSE /\ pub_ok
              /\ Polled("heartbeat")
              /\ UNCHANGED << published, last_heartbeat >>
    /\ UNCHANGED << iter, bootVars, ring, mqttVars, wifiVars, now, buttonVars,
                    button_press, ota_called, otaVars, apVars >>

\* the test of line 154
WifiCheckDue(current_time, last) ==
    ticks_diff(current_time, last) >= wifi_check_interval

\* lines 161-165: the ring after the loss branch
WifiLostRing(r) ==
    set_pulse_step(
        set_pulse_range(set_pulse_color(set_mode(r, "pulse"), JStr("yellow")),
                        20, 200),
        5)

\* faulty variant: level-triggered, a snapshot on every disconnected poll
WifiPoll_level(was, saved, r, wifi_connected) ==
    IF ~wifi_connected
    THEN [was |-> FALSE, saved |-> save_state(r), ring |-> WifiLostRing(r),
          log |-> IF was THEN "lost" ELSE "same"]
    ELSE IF ~was
    THEN IF saved # JNull /\ DOMAIN saved # {}
         THEN [was |-> TRUE, saved |-> JNull,
               ring |-> restore_state(r, saved), log |-> "restored"]
         ELSE [was |-> TRUE, saved |-> saved, ring |-> r, log |-> "restored"]
    ELSE [was |-> was, saved |-> saved, ring |-> r, log |-> "same"]

\* lines 158-174: the health poll's effect on
\* [was |-> wifi_was_connected, saved |-> saved_ring_state, ring, log]
WifiPoll(was, saved, r, wifi_connected) ==
    IF was /\ ~wifi_connected
    THEN [was |-> FALSE, saved |-> save_state(r), ring |-> WifiLostRing(r),
          log |-> "lost"]
    ELSE IF ~was /\ wifi_connected
    THEN IF saved # JNull /\ DOMAIN saved # {}
         THEN [was |-> TRUE, saved |-> JNull,
               ring |-> restore_state(r, saved), log |-> "restored"]
         ELSE [was |-> TRUE, saved |-> saved, ring |-> r, log |-> "restored"]
    ELSE [was |-> was, saved |-> saved, ring |-> r, log |-> "same"]

\* wifi_manager.is_wifi_connected, imported by main.py line 25: the values
\* the link-status sample can return
is_wifi_connected == BOOLEAN

\* lines 153-174
LoopWifi ==
    /\ AtStage("wifi")
    /\ Polled("wifi")
    /\ \E wifi_connected \in is_wifi_connected :
         IF WifiCheckDue(now, last_wifi_check)
         THEN LET w == WifiPoll(wifi_was_connected, saved_ring_state, ring,
                                wifi_connected)
              IN  /\ last_wifi_check' = now
                  /\ wifi_was_connected' = w.was
                  /\ saved_ring_state' = w.saved
                  /\ ring' = w.ring
                  /\ wifi_log' = w.log
                  /\ pre_loss' = IF w.log = "lost" THEN Covered(ring)
                                 ELSE pre_loss
         ELSE /\ wifi_connected
              /\ wifi_log' = "none"
              /\ UNCHANGED << last_wifi_check, wifi_was_connected,
                              saved_ring_state, ring, pre_loss >>
    /\ UNCHANGED << iter, bootVars, mqttVars, last_heartbeat, now, buttonVars,
                    button_press, published, ota_called, otaVars,
                    apVars >>

\* line 177: periodic_check()
LoopOta ==
    /\ AtStage("ota")
    /\ \E env \in OtaEnvs, bits \in RandBits :
         LET p == periodic_check(_ota_config, _last_check_time,
                                 _next_check_interval, now, env, bits)
         IN  /\ _last_check_time' = p.last
             /\ _next_check_interval' = p.next
             /\ ota_log' = [outcome |-> p.outcome,
                            rescheduled |-> p.rescheduled,
                            downloads_ok |->
                                p.outcome = "reset" /\ env.downloads_ok]
             /\ CASE p.outcome \in {"idle", "done"} -> Polled("ota")
                  [] p.outcome = "raise" -> Raise
                  [] p.outcome = "reset" ->
                       /\ pc' = "reset"
                       /\ UNCHANGED << stage, polled, excVars >>
    /\ UNCHANGED << iter, bootVars, ring, mqttVars, last_heartbeat, wifiVars,
                    now, buttonVars, button_press, published, ota_called,
                    _ota_config, updVars, apVars >>

\* line 180: time.sleep_ms(50), then the next pass
LoopSleep(steps) ==
    /\ pc = "loop"
    /\ stage = Len(LoopOrder) + 1
    /\ iter < MaxIter
    /\ \E d \in steps : now' = ticks_add(now, d)
    /\ iter' = iter + 1
    /\ stage' = 1
    /\ polled' = << >>
    /\ published' = << >>
    /\ button_press' = "none"
    /\ ota_called' = "none"
    /\ wifi_log' = "none"
    /\ UNCHANGED << pc, bootVars, ring, mqttVars, last_heartbeat,
                    last_wifi_check, wifi_was_connected, saved_ring_state,
                    pre_loss, buttonVars, otaVars, apVars, excVars >>

\* faulty variant: a failed reconnect is ignored and the loop goes on
AfterReconnect_ignores(ok) == "loop"

\* lines 185-190: where control goes after mqtt_client.connect()
AfterReconnect(ok) == IF ok THEN "loop" ELSE "ap_start"

\* lines 182-190: the except clause; ok: mqtt_client.connect() did not raise.
\* connect() opens a clean session: the broker forgets the subscriptions.
Reconnect ==
    /\ pc = "reconnect"
    /\ \E ok \in BOOLEAN :
         /\ pc' = AfterReconnect(ok)
         /\ connect_calls' = connect_calls + 1
         /\ reconnect_result' = IF ok THEN "ok" ELSE "failed"
         /\ IF pc' = "loop"
            THEN /\ iter < MaxIter
                 /\ iter' = iter + 1
                 /\ subscriptions' = {}
            ELSE UNCHANGED << iter, subscriptions >>
    /\ stage' = 1
    /\ polled' = << >>
    /\ published' = << >>
    /\ button_press' = "none"
    /\ ota_called' = "none"
    /\ wifi_log' = "none"
    /\ UNCHANGED << bootVars, ring, mqtt_client, callback_set, mh_mqtt_client,
                    mh_mqtt_config, last_heartbeat, last_wifi_check,
                    wifi_was_connected, saved_ring_state, pre_loss, now,
                    buttonVars, otaVars, apVars, raised >>

(***************************************************************************)
(* main.py lines 212-252: access point and captive-portal loop             *)
(***************************************************************************)
\* lines 213-220; dns_ok: setup_dns_server() returned a socket
ApStart ==
    /\ pc = "ap_start"
    /\ pc' = "ap_loop"
    /\ stage' = 1
    /\ polled' = << >>
    /\ ap_active' = TRUE
    /\ server_socket' = "open"
    /\ \E dns_ok \in BOOLEAN : dns_socket' = IF dns_ok THEN "open" ELSE "None"
    /\ UNCHANGED << iter, ap_iter, bootVars, ring, mqttVars, last_heartbeat,
                    wifiVars, now, buttonVars, button_press, published,
                    ota_called, otaVars, saved_files, responses,
                    web_request, excVars >>

AtApStage(name) ==
    /\ pc = "ap_loop"
    /\ stage \in 1..Len(ApOrder)
    /\ ApOrder[stage] = name

ApPolled(name) ==
    /\ pc' = "ap_loop"
    /\ stage' = stage + 1
    /\ polled' = Append(polled, name)

\* lines 226-233
ApButton ==
    /\ AtApStage("button")
    /\ ap_iter < MaxApIter
    /\ ApPolled("button")
    /\ \E level \in {0, 1} :
         LET b == check_button(
                     [last_state |-> __button_last_state__,
                      press_start |-> __button_press_start__,
                      state_change_time |-> __button_state_change_time__],
                     level, now)
         IN  /\ __button_last_state__' = b.last_state
             /\ __button_press_start__' = b.press_start
             /\ __button_state_change_time__' = b.state_change_time
             /\ button_press' = b.result
             /\ raw_level' = level
             /\ ring' = IF b.result = "short" THEN reverse_direction(ring)
                        ELSE ring
    /\ UNCHANGED << iter, bootVars, mqttVars, last_heartbeat, wifiVars, now,
                    published, ota_called, otaVars, apVars, excVars >>

\* lines 236-237: handle_dns_request catches every exception
ApDns ==
    /\ AtApStage("dns")
    /\ ApPolled(IF dns_socket # "None" THEN "dns" ELSE "no_dns")
    /\ UNCHANGED << iter, bootVars, ring, mqttVars, last_heartbeat, wifiVars,
                    now, buttonVars, button_press, published, ota_called, otaVars, apVars, excVars >>

\* lines 240-248
ApWeb ==
    /\ AtApStage("web")
    /\ \E req \in WebRequests :
         LET h == handle_web_request(req) IN
         /\ saved_files' = saved_files \cup h.saved
         /\ responses' = h.responses
         /\ web_request' = req
         /\ IF h.result
            THEN /\ pc' = "reset"
                 /\ server_socket' = "closed"
                 /\ dns_socket' = IF dns_socket # "None" THEN "closed"
                                  ELSE dns_socket
                 /\ UNCHANGED << stage, polled >>
            ELSE /\ ApPolled("web")
                 /\ UNCHANGED << server_socket, dns_socket >>
    /\ UNCHANGED << iter, ap_iter, bootVars, ring, mqttVars, last_heartbeat,
                    wifiVars, now, buttonVars, button_press, published,
                    ota_called, otaVars, ap_active, excVars >>

\* lines 251-252: ring.update() outside any try, then sleep_ms(100)
ApUpdate ==
    /\ AtApStage("update")
    /\ IF update_raises(ring)
       THEN /\ pc' = "crashed"
            /\ UNCHANGED << ring, now, ap_iter, stage, polled, button_press,
                            responses >>
       ELSE /\ ring' = update(ring, now)
            /\ now' = ticks_add(now, 100)
            /\ ap_iter' = ap_iter + 1
            /\ pc' = "ap_loop"
            /\ stage' = 1
            /\ polled' = << >>
            /\ button_press' = "none"
            /\ responses' = << >>
    /\ UNCHANGED << iter, bootVars, mqttVars, last_heartbeat, wifiVars,
                    buttonVars, published, ota_called, otaVars,
                    ap_active, server_socket, dns_socket, saved_files,
                    web_request, excVars >>

\* the whole life of main(): boot, connected loop, degraded loop, AP loop
Next ==
    \/ LoadConfig
    \/ WifiAttempt(BOOLEAN)
    \/ WifiDone
    \/ InitOta
    \/ ConnectMqtt
    \/ Degraded
    \/ LoopUpdate
    \/ LoopButton({0})
    \/ LoopMqtt(LifeMessages)
    \/ LoopHeartbeat
    \/ LoopWifi
    \/ LoopOta
    \/ LoopSleep(LifeSteps)
    \/ Reconnect
    \/ ApStart
    \/ ApButton
    \/ ApDns
    \/ ApWeb
    \/ ApUpdate

Spec == Init /\ [][Next]_vars

\* boot with WiFi joined at the first attempt, then the connected main loop
\* with all its inputs; the run ends where main() leaves the connected loop
NextOnline ==
    \/ LoadConfig
    \/ WifiAttempt({TRUE})
    \/ WifiDone
    \/ InitOta
    \/ ConnectMqtt
    \/ LoopUpdate
    \/ LoopButton({0, 1})
    \/ LoopMqtt(Messages)
    \/ LoopHeartbeat
    \/ LoopWifi
    \/ LoopOta
    \/ LoopSleep(LoopSteps)
    \/ Reconnect

SpecOnline == Init /\ [][NextOnline]_vars

\* ---------------------------------------------------------------------
\* The button poll on its own: either loop calls check_button once per pass
\* (main.py lines 129 and 244); here only the pin level and the clock vary.

MaxPolls == 5

\* milliseconds between two polls
ButtonSteps == {1, 50, 51, 2448, 4500}

InitButton ==
    /\ Init
    /\ config
    /\ ~_ota_config.enabled

ButtonPoll ==
    /\ iter < MaxPolls
    /\ \E level \in {0, 1}, d \in ButtonSteps :
         LET current_time == ticks_add(now, d)
             b == check_button(
                     [last_state |-> __button_last_state__,
                      press_start |-> __button_press_start__,
                      state_change_time |-> __button_state_change_time__],
                     level, current_time)
         IN  /\ now' = current_time
             /\ raw_level' = level
             /\ __button_last_state__' = b.last_state
             /\ __button_press_start__' = b.press_start
             /\ __button_state_change_time__' = b.state_change_time
             /\ button_press' = b.result
    /\ iter' = iter + 1
    /\ UNCHANGED << pc, stage, polled, ap_iter, bootVars, ring, mqttVars,
                    last_heartbeat, wifiVars, published, ota_called, otaVars,
                    apVars, excVars >>

NextButton == ButtonPoll

SpecButton == InitButton /\ [][NextButton]_vars

\* ---------------------------------------------------------------------
\* The button poll after long rests: the time d since the previous poll is
\* 51 ms or half the period of the tick counter (about 6.2 days, during
\* which the polls in between saw no change and are left out: check_button
\* changes nothing on them).
ButtonIdlePoll ==
    /\ Len(calls) < MaxPolls
    /\ \E level \in {0, 1}, d \in {51, TICKS_HALF} :
         LET current_time == ticks_add(now, d)
             b == check_button(
                     [last_state |-> __button_last_state__,
                      press_start |-> __button_press_start__,
                      state_change_time |-> __button_state_change_time__],
                     level, current_time)
         IN  /\ now' = current_time
             /\ raw_level' = level
             /\ __button_last_state__' = b.last_state
             /\ __button_press_start__' = b.press_start
             /\ __button_state_change_time__' = b.state_change_time
             /\ button_press' = b.result
             /\ calls' = Append(calls, [op |-> "check_button", d |-> d,
                                        level |-> level,
                                        before |-> __button_last_state__,
                                        after |-> b.last_state])
    /\ UNCHANGED << pc, stage, polled, iter, ap_iter, bootVars, ring, mqttVars,
                    last_heartbeat, wifiVars, published, ota_called,
                    _ota_config, _last_check_time, _next_check_interval,
                    ota_log, fs, tmp, version_record, upd, local_version,
                    remote_version, update_available, apVars, excVars >>

SpecIdle == InitButton /\ [][ButtonIdlePoll]_vars

\* ---------------------------------------------------------------------
\* The OTA schedule on its own: the connected loop calls periodic_check once
\* per pass (main.py line 177) for as long as it runs; here only the clock,
\* the update server and the random bits vary, and the server never delivers
\* an update: the manifest fetch fails or a download of the update fails.

\* milliseconds between two calls (about 9.3 h and 18.6 h)
OtaSteps == {2^25, 2^26}

FailingEnvs ==
    { env \in OtaEnvs :
        \/ env.manifest = "fail"
        \/ env.manifest = "newer" /\ ~env.downloads_ok }

InitSchedule ==
    /\ Init
    /\ config

OtaPoll ==
    /\ \E d \in OtaSteps, env \in FailingEnvs, bits \in RandBits :
         LET current_time == ticks_add(now, d)
             p == periodic_check(_ota_config, _last_check_time,
                                 _next_check_interval, current_time, env, bits)
         IN  /\ now' = current_time
             /\ _last_check_time' = p.last
             /\ _next_check_interval' = p.next
             /\ ota_log' = [outcome |-> p.outcome,
                            rescheduled |-> p.rescheduled,
                            downloads_ok |->
                                p.outcome = "reset" /\ env.downloads_ok]
    /\ UNCHANGED << pc, stage, polled, iter, ap_iter, bootVars, ring, mqttVars,
                    last_heartbeat, wifiVars, buttonVars, button_press,
                    published, ota_called, _ota_config, updVars, apVars,
                    excVars >>

\* the loop keeps iterating: the next call always comes
SpecSchedule == InitSchedule /\ [][OtaPoll]_vars /\ WF_vars(OtaPoll)

\* ---------------------------------------------------------------------
\* The connected loop pass by pass, without a bound on the number of
\* passes: one action is one execution of the body of `while True`
\* (main.py 123-190), from ring.update() to either time.sleep_ms or the
\* except clause, whose mqtt_client.connect() succeeds.  The button is at
\* rest and no message arrives.  d is the time the pass took, links the
\* values is_wifi_connected() can return.
LoopPass(steps, links) ==
    /\ \E check_msg_ok \in BOOLEAN, pub_ok \in BOOLEAN,
          wifi_connected \in links,
          env \in FailingEnvs, bits \in RandBits, d \in steps :
         LET current_time == now
             r1 == update(ring, now)
             b == check_button(
                     [last_state |-> __button_last_state__,
                      press_start |-> __button_press_start__,
                      state_change_time |-> __button_state_change_time__],
                     __button_last_state__, now)
             heartbeat_due == HeartbeatDue(current_time, last_heartbeat)
             wifi_due == WifiCheckDue(current_time, last_wifi_check)
             \* how far the pass gets before something raises
             past_update == ~update_raises(ring)
             past_check_msg == past_update /\ check_msg_ok
             past_heartbeat == past_check_msg /\ (heartbeat_due => pub_ok)
             w == WifiPoll(wifi_was_connected, saved_ring_state, r1,
                           wifi_connected)
             p == periodic_check(_ota_config, _last_check_time,
                                 _next_check_interval, now, env, bits)
             past_ota == past_heartbeat /\ p.outcome \in {"idle", "done"}
         IN  /\ ring' = IF ~past_update THEN ring
                        ELSE IF past_heartbeat /\ wifi_due THEN w.ring
                        ELSE r1
             /\ __button_last_state__' =
                    IF past_update THEN b.last_state ELSE __button_last_state__
             /\ __button_press_start__' =
                    IF past_update THEN b.press_start ELSE __button_press_start__
             /\ __button_state_change_time__' =
                    IF past_update THEN b.state_change_time
                    ELSE __button_state_change_time__
             /\ published' =
                    IF past_heartbeat /\ heartbeat_due
                    THEN <<base_topic \o <<"heartbeat">>>> ELSE << >>
             /\ last_heartbeat' =
                    IF past_heartbeat /\ heartbeat_due THEN current_time
                    ELSE last_heartbeat
             /\ last_wifi_check' =
                    IF past_heartbeat /\ wifi_due THEN current_time
                    ELSE last_wifi_check
             /\ wifi_was_connected' =
                    IF past_heartbeat /\ wifi_due THEN w.was
                    ELSE wifi_was_connected
             /\ saved_ring_state' =
                    IF past_heartbeat /\ wifi_due THEN w.saved
                    ELSE saved_ring_state
             /\ wifi_log' =
                    IF past_heartbeat /\ wifi_due THEN w.log ELSE "none"
             /\ pre_loss' =
                    IF past_heartbeat /\ wifi_due /\ w.log = "lost"
                    THEN Covered(r1) ELSE pre_loss
             /\ _last_check_time' =
                    IF past_heartbeat THEN p.last ELSE _last_check_time
             /\ _next_check_interval' =
                    IF past_heartbeat THEN p.next ELSE _next_check_interval
             /\ ota_log' =
                    IF past_heartbeat
                    THEN [outcome |-> p.outcome, rescheduled |-> p.rescheduled,
                          downloads_ok |-> FALSE]
                    ELSE ota_log
             /\ reconnect_result' = IF past_ota THEN "none" ELSE "ok"
             /\ subscriptions' = IF past_ota THEN subscriptions ELSE {}
             /\ now' = ticks_add(now, d)
    /\ UNCHANGED << pc, stage, polled, iter, ap_iter, bootVars, mqtt_client,
                    callback_set, mh_mqtt_client, mh_mqtt_config, button_press,
                    raw_level, ota_called, _ota_config, updVars, apVars,
                    raised, connect_calls >>

\* the loop keeps iterating: the next pass always comes
SpecLoop ==
    InitSchedule /\ [][LoopPass({2^28}, {TRUE})]_vars
                 /\ WF_vars(LoopPass({2^28}, {TRUE}))

\* ---------------------------------------------------------------------
\* apply_update() step by step, with the flash file system: the file loop of
\* lines 255-270, _download_file (lines 99-132) and the end of lines 272-284.
\* It starts where an update is available and the manifest lists files.

MaxFiles == 2

\* update_info['files']: names, "" for an entry without a name
ManifestFiles ==
    UNION { [1..n -> FileNames \cup {""}] : n \in 1..MaxFiles }

\* the rest of apply_update's locals while at upd.pc
UpdAt(where) == upd.pc = where

\* the file being downloaded
UpdFile == upd.files[upd.i]

\* faulty variant: a failed download is noted and the loop goes on
UpdDownloadFailed_continues ==
    [upd EXCEPT !.pc = "loop", !.i = upd.i + 1, !.success = FALSE]

\* lines 267-270: _download_file returned False
UpdDownloadFailed == [upd EXCEPT !.pc = "finish", !.success = FALSE]

\* apply_update touches nothing but the flash and its own locals
UpdOthers ==
    UNCHANGED << pc, stage, polled, iter, ap_iter, bootVars, ring, mqttVars,
                 last_heartbeat, wifiVars, now, buttonVars, button_press,
                 published, ota_called, _ota_config, _last_check_time,
                 _next_check_interval, ota_log, unitVars, apVars, excVars >>

\* lines 231-253: an update is available with a non-empty file list
UpdStart ==
    /\ UpdAt("idle")
    /\ \E files \in ManifestFiles :
         upd' = [pc |-> "loop", files |-> files, i |-> 1, downloaded |-> << >>,
                 success |-> TRUE, requested |-> << >>]
    /\ UNCHANGED << fs, tmp, version_record >>
    /\ UpdOthers

\* lines 255-264: the next entry of the list; an entry without a name is
\* skipped
UpdNextFile ==
    /\ UpdAt("loop")
    /\ upd' = IF upd.i > Len(upd.files) THEN [upd EXCEPT !.pc = "finish"]
              ELSE IF UpdFile = "" THEN [upd EXCEPT !.i = upd.i + 1]
              ELSE [upd EXCEPT !.pc = "get",
                               !.requested = Append(upd.requested, UpdFile)]
    /\ UNCHANGED << fs, tmp, version_record >>
    /\ UpdOthers

\* _download_file lines 101-105 and 121-132: requests.get; ok: status 200
UpdGet ==
    /\ UpdAt("get")
    /\ \E ok \in BOOLEAN :
         upd' = IF ok THEN [upd EXCEPT !.pc = "write"] ELSE UpdDownloadFailed
    /\ UNCHANGED << fs, tmp, version_record >>
    /\ UpdOthers

\* _download_file lines 106-110 and 125-132: the temporary file is written;
\* ok: the write completed; cleaned: the except clause removed the rest
UpdWrite ==
    /\ UpdAt("write")
    /\ \E ok \in BOOLEAN, cleaned \in BOOLEAN :
         IF ok
         THEN /\ cleaned
              /\ tmp' = [tmp EXCEPT ![UpdFile] = "new"]
              /\ upd' = [upd EXCEPT !.pc = "remove"]
         ELSE /\ tmp' = [tmp EXCEPT ![UpdFile] =
                                       IF cleaned THEN "absent" ELSE "partial"]
              /\ upd' = UpdDownloadFailed
    /\ UNCHANGED << fs, version_record >>
    /\ UpdOthers

\* _download_file lines 112-116: os.remove(filename), a failure is ignored
UpdRemove ==
    /\ UpdAt("remove")
    /\ \E ok \in BOOLEAN :
         fs' = [fs EXCEPT ![UpdFile] = IF ok THEN "absent" ELSE @]
    /\ upd' = [upd EXCEPT !.pc = "rename"]
    /\ UNCHANGED << tmp, version_record >>
    /\ UpdOthers

\* _download_file lines 117-120 and 125-132: os.rename(temp, filename); when
\* it raises the except clause removes the temporary file
UpdRename ==
    /\ UpdAt("rename")
    /\ \E ok \in BOOLEAN, cleaned \in BOOLEAN :
         IF ok
         THEN /\ cleaned
              /\ fs' = [fs EXCEPT ![UpdFile] = tmp[UpdFile]]
              /\ tmp' = [tmp EXCEPT ![UpdFile] = "absent"]
              /\ upd' = [upd EXCEPT !.pc = "loop", !.i = upd.i + 1,
                                    !.downloaded = Append(upd.downloaded, UpdFile)]
         ELSE /\ fs' = fs
              /\ tmp' = [tmp EXCEPT ![UpdFile] = IF cleaned THEN "absent" ELSE @]
              /\ upd' = UpdDownloadFailed
    /\ UNCHANGED version_record
    /\ UpdOthers

\* faulty variant: the record is written for whatever was downloaded
UpdFinish_records_partial ==
    /\ UpdAt("finish")
    /\ IF upd.downloaded # << >>
       THEN /\ \E save_ok \in BOOLEAN :
                 version_record' = IF save_ok THEN "new" ELSE version_record
            /\ upd' = [upd EXCEPT !.pc = IF upd.success THEN "reset"
                                         ELSE "returned"]
       ELSE /\ upd' = [upd EXCEPT !.pc = "returned"]
            /\ UNCHANGED version_record
    /\ UNCHANGED << fs, tmp >>
    /\ UpdOthers

\* lines 272-284; save_ok: _save_local_version wrote the record
UpdFinish ==
    /\ UpdAt("finish")
    /\ IF upd.success /\ upd.downloaded # << >>
       THEN /\ \E save_ok \in BOOLEAN :
                 version_record' = IF save_ok THEN "new" ELSE version_record
            /\ upd' = [upd EXCEPT !.pc = "reset"]
       ELSE /\ upd' = [upd EXCEPT !.pc = "returned"]
            /\ UNCHANGED version_record
    /\ UNCHANGED << fs, tmp >>
    /\ UpdOthers

\* the next cycle after an attempt that aborted: check_for_updates (lines
\* 196-208) compares the version record with the same manifest and, while
\* the record is the old one, reports the update with the manifest's file
\* list; apply_update starts over with it.  The aborted attempt is logged.
UpdRetry ==
    /\ UpdAt("returned")
    /\ ~upd.success
    /\ calls = << >>
    /\ version_record = "old"
    /\ upd' = [pc |-> "loop", files |-> upd.files, i |-> 1,
               downloaded |-> << >>, success |-> TRUE, requested |-> << >>]
    /\ calls' = << [op |-> "apply_update", files |-> upd.files,
                    requested |-> upd.requested,
                    downloaded |-> upd.downloaded] >>
    /\ UNCHANGED << pc, stage, polled, iter, ap_iter, bootVars, ring, mqttVars,
                    last_heartbeat, wifiVars, now, buttonVars, button_press,
                    published, ota_called, _ota_config, _last_check_time,
                    _next_check_interval, ota_log, fs, tmp, version_record,
                    local_version, remote_version, update_available,
                    apVars, excVars >>

\* the device loses power while apply_update() runs
PowerLoss ==
    /\ upd.pc \in {"loop", "get", "write", "remove", "rename", "finish"}
    /\ upd' = [upd EXCEPT !.pc = "off"]
    /\ UNCHANGED << fs, tmp, version_record >>
    /\ UpdOthers

InitUpdate ==
    /\ Init
    /\ config
    /\ _ota_config.enabled

NextUpdate ==
    \/ UpdStart
    \/ UpdNextFile
    \/ UpdGet
    \/ UpdWrite
    \/ UpdRemove
    \/ UpdRename
    \/ UpdFinish
    \/ UpdRetry
    \/ PowerLoss

SpecUpdate == InitUpdate /\ [][NextUpdate]_vars

\* ---------------------------------------------------------------------
\* The version comparison of check_for_updates (lines 196-208) on its own,
\* for the version strings the local record and the manifest can hold.

MaxParts == 3

\* versions of up to MaxParts components, each empty, not a number, "0",
\* "9" or "10"
Versions ==
    LET Components == { << >>, <<"a">>, <<"0">>, <<"9">>, <<"1", "0">> }
    IN  UNION { [1..n -> Components] : n \in 1..MaxParts }

VersionCheck ==
    /\ update_available = "unset"
    /\ \E local \in Versions, remote \in Versions :
         /\ local_version' = local
         /\ remote_version' = remote
         /\ update_available' =
               IF _compare_versions(local, remote) THEN "yes" ELSE "no"
    /\ UNCHANGED << pc, stage, polled, iter, ap_iter, bootVars, ring, mqttVars,
                    last_heartbeat, wifiVars, now, buttonVars, button_press,
                    published, ota_called, _ota_config, _last_check_time,
                    _next_check_interval, ota_log, fs, tmp, version_record,
                    upd, calls, apVars, excVars >>

InitVersion ==
    /\ Init
    /\ config
    /\ _ota_config.enabled

SpecVersion == InitVersion /\ [][VersionCheck]_vars

\* ---------------------------------------------------------------------
\* mqtt_callback on its own: ring commands, one after the other, on the ring
\* main() has set up.

MaxCommands == 2

\* every ring command with each of the payloads {"color": "blue"} with any
\* of speed, brightness and direction, {"speed": 40},
\* {"color": "blue", "speed": null}, the bare token red, the empty payload
\* and {color: blue (which json.loads rejects)
CommandMessages ==
    LET CommandNames ==
            {"chase", "static", "flash", "comet", "spinner", "rainbow",
             "pulse", "reset"}
        KeyValue(key) ==
            CASE key = "color" -> JStr("blue")
              [] key = "speed" -> JInt(40)
              [] key = "brightness" -> JInt(100)
              [] key = "direction" -> JStr("ccw")
        CommandPayloads ==
            { [k |-> "json",
               d |-> [key \in keys \cup {"color"} |-> KeyValue(key)]] :
                 keys \in SUBSET {"speed", "brightness", "direction"} }
            \cup { [k |-> "json", d |-> [speed |-> JInt(40)]],
                   [k |-> "json",
                    d |-> [color |-> JStr("blue"), speed |-> JNull]],
                   [k |-> "plain", s |-> "red"],
                   [k |-> "plain", s |-> ""],
                   [k |-> "bad", s |-> "{color: blue"] }
    IN  { [topic |-> base_topic \o <<"ring", name>>, payload |-> payload] :
             name \in CommandNames, payload \in CommandPayloads }

\* mqtt_callback(topic, msg) for one of msgs
RingCommand(msgs, max) ==
    /\ Len(calls) < max
    /\ \E m \in msgs :
         /\ ring' = mqtt_callback(ring, m.topic, m.payload).ring
         /\ calls' = Append(calls, [op |-> "mqtt_callback", topic |-> m.topic,
                                    payload |-> m.payload])
    /\ UNCHANGED << pc, stage, polled, iter, ap_iter, bootVars, mqttVars,
                    last_heartbeat, wifiVars, now, buttonVars, button_press,
                    published, ota_called, _ota_config, _last_check_time,
                    _next_check_interval, ota_log, fs, tmp, version_record,
                    upd, local_version, remote_version, update_available,
                    apVars, excVars >>

InitRing ==
    /\ Init
    /\ config

SpecRing == InitRing /\ [][RingCommand(CommandMessages, MaxCommands)]_vars

\* ---------------------------------------------------------------------
\* save_state / restore_state on their own, between ring commands and
\* animation ticks.

MaxCalls == 4

SnapshotMessages ==
    { [topic |-> base_topic \o <<"ring", "chase">>,
       payload |-> [k |-> "json",
                    d |-> [color |-> JStr("blue"), speed |-> JInt(40)]]],
      [topic |-> base_topic \o <<"ring", "spinner">>,
       payload |-> [k |-> "json",
                    d |-> [colors |-> JList(<<JStr("green"), JStr("blue")>>),
                           direction |-> JStr("ccw")]]],
      [topic |-> base_topic \o <<"ring", "pulse">>,
       payload |-> [k |-> "json",
                    d |-> [color |-> JStr("blue"), min |-> JInt(20),
                           max |-> JInt(120), step |-> JInt(50),
                           brightness |-> JInt(100)]]],
      [topic |-> base_topic \o <<"ring", "rainbow">>,
       payload |-> [k |-> "plain", s |-> ""]] }

\* snapshots other than the one save_state returned: None, the empty dict
\* and dicts with some of the keys
PartialSnapshots ==
    { JNull, << >>, [mode |-> "solid", brightness |-> 10],
      [pulse_step |-> 7] }

\* saved = ring.save_state()
RingSave ==
    /\ Len(calls) < MaxCalls
    /\ saved_ring_state' = save_state(ring)
    /\ calls' = Append(calls, [op |-> "save_state", ring |-> ring])
    /\ UNCHANGED << pc, stage, polled, iter, ap_iter, bootVars, ring, mqttVars,
                    last_heartbeat, last_wifi_check, wifi_was_connected,
                    wifi_log, pre_loss, now, buttonVars, button_press,
                    published, ota_called, _ota_config, _last_check_time,
                    _next_check_interval, ota_log, fs, tmp, version_record,
                    upd, local_version, remote_version, update_available,
                    apVars, excVars >>

\* ring.restore_state(state), state the saved snapshot or a partial one
RingRestore ==
    /\ Len(calls) < MaxCalls
    /\ \E state \in {saved_ring_state} \cup PartialSnapshots :
         /\ ring' = restore_state(ring, state)
         /\ calls' = Append(calls, [op |-> "restore_state", state |-> state,
                                    ring |-> ring])
    /\ UNCHANGED << pc, stage, polled, iter, ap_iter, bootVars, mqttVars,
                    last_heartbeat, wifiVars, now, buttonVars, button_press,
                    published, ota_called, _ota_config, _last_check_time,
                    _next_check_interval, ota_log, fs, tmp, version_record,
                    upd, local_version, remote_version, update_available,
                    apVars, excVars >>

\* ring.update() 100 ms later
RingTick(max) ==
    /\ Len(calls) < max
    /\ ~update_raises(ring)
    /\ now' = ticks_add(now, 100)
    /\ ring' = update(ring, now')
    /\ calls' = Append(calls, [op |-> "update"])
    /\ UNCHANGED << pc, stage, polled, iter, ap_iter, bootVars, mqttVars,
                    last_heartbeat, wifiVars, buttonVars, button_press,
                    published, ota_called, _ota_config, _last_check_time,
                    _next_check_interval, ota_log, fs, tmp, version_record,
                    upd, local_version, remote_version, update_available,
                    apVars, excVars >>

SpecSnapshot ==
    InitRing /\ [][ \/ RingCommand(SnapshotMessages, MaxCalls)
                    \/ RingSave
                    \/ RingRestore
                    \/ RingTick(MaxCalls) ]_vars

\* ---------------------------------------------------------------------
\* The pulse animation on its own: pulse commands that set the range and the
\* step, and animation ticks.

MaxTicks == 7

\* {"min": 20, "max": 120, "step": 50}, {"min": 100, "max": 100} and
\* {"max": 5} (below the default min of 10: set_pulse_range swaps the two)
PulseMessages ==
    { [topic |-> base_topic \o <<"ring", "pulse">>,
       payload |-> [k |-> "json", d |-> d]] :
         d \in { [min |-> JInt(20), max |-> JInt(120), step |-> JInt(50)],
                 [min |-> JInt(100), max |-> JInt(100)],
                 [max |-> JInt(5)] } }

SpecPulse ==
    InitRing /\ [][ \/ RingCommand(PulseMessages, MaxTicks)
                    \/ RingTick(MaxTicks) ]_vars

\* ---------------------------------------------------------------------
\* The captive-portal DNS responder on its own.  A datagram is a sequence of
\* byte values; ap_ip is modelled by what str.split('.') makes of it (as a
\* version string above).

\* web_server.py 26-72: handle_dns_request(dns_socket, ap_ip) for a received
\* datagram `data`; the value is the datagram passed to sendto, or "none"
\* when int() or bytes() raises (line 71 catches it and nothing is sent)
handle_dns_request(data, ap_ip) ==
    LET ip_parts == SubSeq(ap_ip, 1, 4)
        transaction_id == SubSeq(data, 1, 2)
        flags == <<129, 128>>
        questions == SubSeq(data, 5, 6)
        answer_rrs == <<0, 1>>
        authority_rrs == <<0, 0>>
        additional_rrs == <<0, 0>>
        answer_name == <<192, 12>>
        answer_type == <<0, 1>>
        answer_class == <<0, 1>>
        answer_ttl == <<0, 0, 0, 60>>
        answer_length == <<0, 4>>
    IN  IF \E k \in DOMAIN ip_parts :
               \/ ~IntParses(ip_parts[k])
               \/ IntValue(ip_parts[k]) > 255
        THEN "none"
        ELSE LET answer_data == [k \in DOMAIN ip_parts |-> IntValue(ip_parts[k])]
             IN  transaction_id \o flags \o questions \o answer_rrs
                    \o authority_rrs \o additional_rrs
                    \o SubSeq(data, 13, Len(data))
                    \o answer_name \o answer_type \o answer_class
                    \o answer_ttl \o answer_length \o answer_data

\* Well-formed queries with one question: a transaction id, the flags of a
\* standard query with recursion desired, QDCOUNT 1, the question (a name of
\* length-prefixed labels, a type and class IN), and either nothing more or
\* one EDNS0 OPT record in the additional section (ARCOUNT 1), as resolvers
\* that announce their UDP payload size send.
DnsQueries ==
    LET Ids == { <<0, 0>>, <<18, 52>>, <<255, 255>> }
        Names == { <<0>>,
                   <<1, 97, 0>>,
                   <<2, 97, 98, 1, 99, 0>>,
                   <<7, 101, 120, 97, 109, 112, 108, 101, 3, 99, 111, 109, 0>> }
        Types == { <<0, 1>>, <<0, 28>> }
        Opt == <<0, 0, 41, 16, 0, 0, 0, 0, 0, 0, 0>>
    IN  { [id |-> id, name |-> name, type |-> type, additional |-> add,
           data |-> id \o <<1, 0>> \o <<0, 1>> \o <<0, 0>> \o <<0, 0>>
                       \o <<0, Len(add) \div 11>>
                       \o name \o type \o <<0, 1>> \o add] :
            id \in Ids, name \in Names, type \in Types, add \in { << >>, Opt } }

\* the address ap.ifconfig()[0] returns
ApIps ==
    { << <<"1", "9", "2">>, <<"1", "6", "8">>, <<"4">>, <<"1">> >>,
      << <<"1", "0">>, <<"0">>, <<"0">>, <<"1">> >>,
      << <<"1", "7", "2">>, <<"1", "6">>, <<"2", "5", "5">>, <<"2", "5", "4">> >> }

\* one datagram received and answered
DnsRequest ==
    /\ calls = << >>
    /\ \E q \in DnsQueries, ap_ip \in ApIps :
         calls' = << [op |-> "handle_dns_request", query |-> q, ap_ip |-> ap_ip,
                      response |-> handle_dns_request(q.data, ap_ip)] >>
    /\ UNCHANGED << pc, stage, polled, iter, ap_iter, bootVars, ring, mqttVars,
                    last_heartbeat, wifiVars, now, buttonVars, button_press,
                    published, ota_called, _ota_config, _last_check_time,
                    _next_check_interval, ota_log, fs, tmp, version_record,
                    upd, local_version, remote_version, update_available,
                    apVars, excVars >>

SpecDns ==
    Init /\ [][DnsRequest]_vars

\* ---------------------------------------------------------------------
\* set_direction on its own, with the arguments its callers can pass: the
\* literal of main.py 47 and whatever value a payload holds under
\* "direction" (mqtt_handler.py 194).
Directions ==
    { JStr(d) : d \in { "cw", "CW", "clockwise", "Clockwise", "ccw",
                        "counter-clockwise", "counterclockwise", "reverse",
                        "Reverse", "up", "" } }
      \cup { JInt(n) : n \in {1, -1, 0, 2, -2} }
      \cup { JList(<<1>>), JNull }

\* ring.set_direction(direction)
RingSetDirection ==
    /\ Len(calls) < MaxCommands
    /\ \E direction \in Directions :
         /\ ring' = set_direction(ring, direction)
         /\ calls' = Append(calls, [op |-> "set_direction",
                                    direction |-> direction])
    /\ UNCHANGED << pc, stage, polled, iter, ap_iter, bootVars, mqttVars,
                    last_heartbeat, wifiVars, now, buttonVars, button_press,
                    published, ota_called, _ota_config, _last_check_time,
                    _next_check_interval, ota_log, fs, tmp, version_record,
                    upd, local_version, remote_version, update_available,
                    apVars, excVars >>

SpecDirection ==
    InitRing /\ [][RingSetDirection]_vars

\* ---------------------------------------------------------------------
\* The animation state under commands whose numbers are outside the
\* documented ranges, between snapshots, restores and animation ticks:
\*   pulse {"min": 300, "max": -5, "step": 0, "brightness": 999}
\*   pulse {"min": 200, "max": 100, "step": 99}
\*   chase {"direction": "reverse", "brightness": -20}
\*   rainbow with an empty payload
RangeMessages ==
    { [topic |-> base_topic \o <<"ring", "pulse">>,
       payload |-> [k |-> "json",
                    d |-> [min |-> JInt(300), max |-> JInt(-5),
                           step |-> JInt(0), brightness |-> JInt(999)]]],
      [topic |-> base_topic \o <<"ring", "pulse">>,
       payload |-> [k |-> "json",
                    d |-> [min |-> JInt(200), max |-> JInt(100),
                           step |-> JInt(99)]]],
      [topic |-> base_topic \o <<"ring", "chase">>,
       payload |-> [k |-> "json",
                    d |-> [direction |-> JStr("reverse"),
                           brightness |-> JInt(-20)]]],
      [topic |-> base_topic \o <<"ring", "rainbow">>,
       payload |-> [k |-> "plain", s |-> ""]] }

SpecRange ==
    InitRing /\ [][ \/ RingCommand(RangeMessages, MaxCalls)
                    \/ RingSave
                    \/ RingRestore
                    \/ RingTick(MaxCalls) ]_vars

\* ---------------------------------------------------------------------
\* mqtt_callback on its own, for devices configured with different base
\* topics (mqtt_config['topic']): the default esp32/test, spring/lamp and
\* rotation.  A message is published on <base>/<rest>.
RoutedMessages ==
    LET Bases == { base_topic, <<"spring", "lamp">>, <<"rotation">> }
        Rests == { <<"ring", "static">>, <<"ring", "flash">>,
                   <<"ring", "rainbow">>,
                   <<"ota", "check">>, <<"ota", "update">>, <<"ota", "status">>,
                   <<"command">>, <<"button", "1">>, <<"button", "static">>,
                   <<"button", "ota", "update">> }
    IN  { [base |-> base, rest |-> rest] : base \in Bases, rest \in Rests }

\* mqtt_callback(topic, msg) with an empty payload
MqttCallback ==
    /\ Len(calls) < MaxCommands
    /\ \E m \in RoutedMessages :
         LET cb == mqtt_callback(ring, m.base \o m.rest,
                                 [k |-> "plain", s |-> ""])
         IN  /\ ring' = cb.ring
             /\ ota_called' = cb.ota
             /\ calls' = Append(calls, [op |-> "mqtt_callback",
                                        base |-> m.base, rest |-> m.rest])
    /\ UNCHANGED << pc, stage, polled, iter, ap_iter, bootVars, mqttVars,
                    last_heartbeat, wifiVars, now, buttonVars, button_press,
                    published, _ota_config, _last_check_time,
                    _next_check_interval, ota_log, fs, tmp, version_record,
                    upd, local_version, remote_version, update_available,
                    apVars, excVars >>

SpecRouting ==
    InitRing /\ [][MqttCallback]_vars

(***************************************************************************)
(* Properties                                                              *)
(***************************************************************************)

\* C1: when the WiFi health poll sees the link come back after a loss, the
\* ring's mode, direction, brightness, update interval, the six colour
\* settings and the three pulse settings are again what they were at the
\* poll that detected the loss, whatever the ring was changed to in between.
C1_RecoveryRestoresRing ==
    (pc = "loop" /\ wifi_log = "restored") => Covered(ring) = pre_loss

\* a command shaped the ring before the loss, the loss put the yellow pulse
\* on it, and a long press was published in the pass that saw the recovery
C1_Witness ==
    /\ pc = "loop"
    /\ wifi_log = "restored"
    /\ pre_loss.mode = "chase"
    /\ pre_loss.update_interval = JInt(40)
    /\ Covered(ring) = pre_loss
    /\ button_press = "long"

\* C2: saved_ring_state is non-None only while wifi_was_connected is False;
\* the snapshot is taken exactly at the poll that sees the loss and cleared
\* exactly at the poll that sees the recovery; a poll that sees the same
\* connectivity as the one before changes neither the snapshot nor the ring.
C2_SnapshotOnlyWhileLost ==
    saved_ring_state # JNull => ~wifi_was_connected

C2_EdgeTriggered ==
    [][ AtStage("wifi") =>
          /\ wifi_log' = "lost" =>
                /\ saved_ring_state = JNull
                /\ saved_ring_state' = Covered(ring)
                /\ ~wifi_was_connected'
          /\ wifi_log' = "restored" =>
                /\ saved_ring_state # JNull
                /\ saved_ring_state' = JNull
                /\ wifi_was_connected'
          /\ wifi_log' \in {"same", "none"} =>
                UNCHANGED << saved_ring_state, wifi_was_connected, ring >>
      ]_vars

C2_SnapshotEdgeTriggered == []C2_SnapshotOnlyWhileLost /\ C2_EdgeTriggered

\* a second disconnected poll in a row: the snapshot of the first is kept
C2_Witness ==
    /\ pc = "loop"
    /\ wifi_log = "same"
    /\ ~wifi_was_connected
    /\ saved_ring_state # JNull
    /\ saved_ring_state.mode = "chase"
    /\ ring.mode = "pulse"

\* C3: with a stored WiFi configuration boot makes at most MAX_RETRIES (3)
\* connection attempts and stops at the first success; the 5 s delay comes
\* only between a failed attempt and the next one, never after the last; the
\* access point is started if and only if there is no stored configuration,
\* or all attempts failed, or a failed MQTT reconnect left the connected loop.
C3_EnteredAp == pc = "ap_start" \/ ap_active

C3_RetryThenAp ==
    /\ retry_count <= 3
    /\ Cardinality({i \in DOMAIN attempts : attempts[i] # "sleep"}) = retry_count
    /\ \A i \in DOMAIN attempts :
         /\ attempts[i] = "ok" => i = Len(attempts)
         /\ attempts[i] = "sleep" =>
               /\ i > 1 /\ attempts[i - 1] = "fail"
               /\ i = Len(attempts) =>
                     pc = "connecting" /\ retry_count < 3 /\ ~connected
               /\ i < Len(attempts) => attempts[i + 1] # "sleep"
         /\ (attempts[i] = "fail" /\ i < Len(attempts)) =>
               attempts[i + 1] = "sleep"
    /\ connected <=> (attempts # << >> /\ attempts[Len(attempts)] = "ok")
    /\ pc \notin {"start", "connecting"} =>
         (C3_EnteredAp <=> \/ ~config
                           \/ (retry_count = 3 /\ ~connected)
                           \/ reconnect_result = "failed")

\* three failures with two delays between them, and the access point is up
C3_Witness ==
    /\ attempts = <<"fail", "sleep", "fail", "sleep", "fail">>
    /\ ap_active
    /\ pc = "ap_loop"

\* C4: every exception raised in a pass of the connected loop is answered by
\* exactly one mqtt_client.connect(); when it succeeds main() is back in the
\* loop at the top of a pass, when it fails main() leaves the loop for good
\* and goes on to start the access point.
C4_CallPerFault ==
    /\ connect_calls = raised - (IF pc = "reconnect" THEN 1 ELSE 0)
    /\ reconnect_result = "ok" =>
         pc \in {"loop", "reconnect", "reset"} /\ ~C3_EnteredAp
    /\ reconnect_result = "failed" =>
         pc \in {"ap_start", "ap_loop", "reset", "crashed"} /\ C3_EnteredAp

C4_ReconnectStep ==
    [][ pc = "reconnect" =>
          /\ connect_calls' = connect_calls + 1
          /\ \/ reconnect_result' = "ok" /\ pc' = "loop" /\ stage' = 1
             \/ reconnect_result' = "failed" /\ pc' = "ap_start"
      ]_vars

C4_OneReconnectPerFault == []C4_CallPerFault /\ C4_ReconnectStep

\* a fault answered by a successful reconnect, then a second fault whose
\* reconnect failed, and the access point is up
C4_Witness ==
    /\ raised = 2
    /\ connect_calls = 2
    /\ reconnect_result = "failed"
    /\ ap_active

\* C5: when connect_to_mqtt returns None after WiFi connected, the device
\* shows the red pulse (range 10..100, step 5) and stays in the loop that
\* only animates the ring: no access point, no restart, no broker session.
C5_DegradedForever ==
    mqtt_client = "None" =>
        /\ pc = "degraded"
        /\ ~C3_EnteredAp
        /\ server_socket = "None"
        /\ subscriptions = {} /\ ~callback_set
        /\ ring.mode = "pulse"
        /\ ring.pulse_color = <<255, 0, 0>>
        /\ ring.pulse_min_brightness = 10
        /\ ring.pulse_max_brightness = 100
        /\ ring.pulse_step = 5

\* two passes of the degraded loop have run and the pulse has moved
C5_Witness ==
    /\ pc = "degraded"
    /\ mqtt_client = "None"
    /\ iter >= 2
    /\ ring.pulse_current > 10

\* C6: once the access point is up, main() stays in the portal loop until
\* handle_web_request returns True, and then closes the sockets and resets.
C6_ApLoopLeftOnlyByConfig ==
    ap_active =>
        \/ pc = "ap_loop"
        \/ /\ pc = "reset"
           /\ responses = <<"success_page">>
           /\ server_socket = "closed"
           /\ dns_socket # "open"

\* C7: every pass of the connected loop polls, in this order and once each:
\* LED animation, button, MQTT pump, heartbeat, WiFi health, OTA schedule.
C7_PollOrder ==
    pc = "loop" =>
        polled = SubSeq(<<"update", "button", "mqtt", "heartbeat", "wifi", "ota">>,
                        1, stage - 1)

\* a full pass in which the button event was published and the WiFi loss seen
C7_Witness ==
    /\ pc = "loop"
    /\ Len(polled) = 6
    /\ button_press # "none"
    /\ wifi_log = "lost"

C9_DebounceRejects ==
    [][ (/\ raw_level' # __button_last_state__
         /\ now' - __button_state_change_time__ < 50) =>
            /\ UNCHANGED << __button_last_state__, __button_press_start__,
                            __button_state_change_time__ >>
            /\ button_press' = "none"
      ]_vars

\* a press was accepted and the pin read released again 1 ms later
C9_Witness ==
    /\ __button_last_state__ = 1
    /\ raw_level = 0
    /\ __button_state_change_time__ > 0
    /\ now - __button_state_change_time__ = 1
    /\ button_press = "none"

\* C10: the device is subscribed to <base>/ota/check, <base>/ota/update and
\* <base>/ota/status, and every OTA command that runs publishes its response
\* on <base>/ota/<command>/response.
C10_OtaCommandsAnswered ==
    pc = "loop" =>
        /\ \A c \in {"check", "update", "status"} :
              Delivered(subscriptions, base_topic \o <<"ota", c>>)
        /\ ota_called # "none" =>
              \E i \in DOMAIN published :
                  published[i] = base_topic \o <<"ota", ota_called, "response">>

\* C11: every call of periodic_check() that fires (the interval has elapsed)
\* leaves the schedule reset, whatever the check did: _last_check_time is the
\* time of the firing and _next_check_interval is a value drawn in this call,
\* between 22 h and 26 h in milliseconds.
C11_FiringReschedules ==
    [][ (AtStage("ota") /\ ota_log'.outcome # "idle") =>
            /\ _last_check_time' = now
            /\ ota_log'.rescheduled
            /\ _next_check_interval' >= 22 * 3600000
            /\ _next_check_interval' <= 26 * 3600000
      ]_vars

\* C12: while the update server keeps failing and the loop keeps calling
\* periodic_check as time advances, checks fire again and again: a firing is
\* always followed by another one, and after a call the time since the last
\* firing is below 26 h, so the next firing comes no later than 26 h plus one
\* pass after the previous one.
C12_FiresAgain ==
    /\ []<>(ota_log.outcome = "done")
    /\ [](ota_log.outcome # "none" =>
             ticks_diff(now, _last_check_time) < 26 * 3600000)

\* a firing at least 44 h after start with updates enabled: not the first one
C12_Witness ==
    /\ _ota_config.enabled
    /\ ota_log.outcome = "done"
    /\ ota_log.rescheduled
    /\ _last_check_time = now
    /\ now >= 44 * 3600000

\* C13: apply_update requests the named files of the manifest in order and
\* stops at the first download that fails: no later file is requested, the
\* files downloaded before it stay replaced, the version record is not
\* written and the device does not reboot; the record is written and the
\* device reboots only when every named file was downloaded.
C13_Named == SelectSeq(upd.files, LAMBDA f : f # "")

C14_AtomicReplace ==
    upd.pc \in {"returned", "reset", "off"} =>
        \A f \in FileNames : fs[f] \in {"old", "new"}

\* C15: _compare_versions(local, remote) is True exactly when every
\* component of both strings is a number and, reading a missing component as
\* 0, the first component in which they differ is greater in remote; when a
\* component of either string is not a number it is False, so no update is
\* reported.
C15_Wellformed(v) ==
    \A k \in DOMAIN v : v[k] \in { <<"0">>, <<"9">>, <<"1", "0">> }

C15_Part(v, k) ==
    IF k > Len(v) THEN 0
    ELSE CASE v[k] = <<"0">> -> 0
           [] v[k] = <<"9">> -> 9
           [] v[k] = <<"1", "0">> -> 10

C15_Newer(local, remote) ==
    \E k \in 1..Max2(Len(local), Len(remote)) :
        /\ C15_Part(remote, k) > C15_Part(local, k)
        /\ \A j \in 1..(k - 1) : C15_Part(remote, j) = C15_Part(local, j)

C15_CompareVersions ==
    update_available # "unset" =>
        (update_available = "yes" <=>
            /\ C15_Wellformed(local_version)
            /\ C15_Wellformed(remote_version)
            /\ C15_Newer(local_version, remote_version))

\* 9.9 against 9.9.0: equal after padding, no update
C15_Witness ==
    /\ local_version = << <<"9">>, <<"9">> >>
    /\ remote_version = << <<"9">>, <<"9">>, <<"0">> >>
    /\ update_available = "no"

\* C16: a call of handle_web_request that meets a POST /configure whose form
\* has ssid and password writes the WiFi, MQTT and OTA configuration, sends
\* the success page and returns True, so that main() resets; a call that
\* meets anything else returns False.
C16_HasCredentials(req) ==
    /\ req.kind = "configure"
    /\ req.body
    /\ req.ssid
    /\ req.password

C16_ConfigureAccepted ==
    [][ AtApStage("web") =>
            IF C16_HasCredentials(web_request')
            THEN /\ {"wifi", "mqtt", "ota"} \subseteq saved_files'
                 /\ responses' = <<"success_page">>
                 /\ pc' = "reset"
            ELSE pc' # "reset" ]_vars

\* C17: a payload with the keys color and speed only on <base>/ring/chase
\* sets chase_color to the color, update_interval to the speed and mode to
\* chase and leaves brightness and direction as they were; and a ring
\* command changes update_interval, brightness or direction only when its
\* payload has the key speed, brightness or direction.
C17_Keys(m) == IF m.payload.k = "json" THEN DOMAIN m.payload.d ELSE {}

C17_Frame(m) ==
    /\ "speed" \notin C17_Keys(m) =>
           ring'.update_interval = ring.update_interval
    /\ "brightness" \notin C17_Keys(m) => ring'.brightness = ring.brightness
    /\ "direction" \notin C17_Keys(m) => ring'.direction = ring.direction

C17_ChaseBlue40(m) ==
    (/\ m.topic = base_topic \o <<"ring", "chase">>
     /\ m.payload = [k |-> "json",
                     d |-> [color |-> JStr("blue"), speed |-> JInt(40)]])
        => /\ ring'.chase_color = <<0, 0, 255>>
           /\ ring'.update_interval = JInt(40)
           /\ ring'.mode = "chase"
           /\ ring'.brightness = ring.brightness
           /\ ring'.direction = ring.direction

C17_OnlyKeysChange ==
    [][ calls' # calls =>
            LET m == calls'[Len(calls')]
            IN  C17_Frame(m) /\ C17_ChaseBlue40(m) ]_vars

\* C17 as amended: the same, for the ring commands other than reset.
C17_OnlyKeysChangeButReset ==
    [][ calls' # calls =>
            LET m == calls'[Len(calls')]
            IN  /\ m.topic # base_topic \o <<"ring", "reset">> => C17_Frame(m)
                /\ C17_ChaseBlue40(m) ]_vars

\* {"color": "blue", "speed": 40} on ring/chase, after a command that had set
\* brightness 100 and direction ccw
C17_Witness ==
    /\ Len(calls) = 2
    /\ calls[2] =
          [op |-> "mqtt_callback",
           topic |-> base_topic \o <<"ring", "chase">>,
           payload |-> [k |-> "json",
                        d |-> [color |-> JStr("blue"), speed |-> JInt(40)]]]
    /\ ring.mode = "chase"
    /\ ring.chase_color = <<0, 0, 255>>
    /\ ring.update_interval = JInt(40)
    /\ ring.brightness = 100
    /\ ring.direction = -1

\* C18: a restore_state of the snapshot save_state returned leaves mode,
\* direction, brightness, update_interval, the six colour settings and the
\* three pulse settings as they were when the snapshot was taken, whether the
\* restore follows the save at once or commands, ticks and other restores came
\* in between.
C18_SavedAt ==
    CHOOSE k \in 1..Len(calls) :
        /\ calls[k].op = "save_state"
        /\ \A j \in (k + 1)..Len(calls) : calls[j].op # "save_state"

C18_RoundTrip ==
    (/\ calls # << >>
     /\ calls[Len(calls)].op = "restore_state"
     /\ \E k \in 1..Len(calls) : calls[k].op = "save_state"
     /\ calls[Len(calls)].state = saved_ring_state)
        => \A f \in {"mode", "direction", "brightness", "update_interval",
                     "chase_color", "comet_color", "spinner_colors",
                     "solid_color", "flash_color", "pulse_color",
                     "pulse_min_brightness", "pulse_max_brightness",
                     "pulse_step"} :
               ring[f] = calls[C18_SavedAt].ring[f]

\* a snapshot of the startup ring, then the pulse command, a tick, and the
\* restore brings back chase at 30 ms and brightness 50
C18_Witness ==
    /\ Len(calls) = 4
    /\ calls[1].op = "save_state"
    /\ calls[2].op = "mqtt_callback"
    /\ calls[2].topic = base_topic \o <<"ring", "pulse">>
    /\ calls[3].op = "update"
    /\ calls[4].op = "restore_state"
    /\ calls[4].state = saved_ring_state
    /\ calls[4].ring.mode = "pulse"
    /\ calls[4].ring.brightness = 100
    /\ ring.mode = "chase"
    /\ ring.brightness = 50
    /\ ring.pulse_step = 5

\* C19: restore_state accepts a snapshot that lacks keys, is empty or is None:
\* a field the snapshot does not hold keeps its value, and after every call,
\* whatever the snapshot, position = 0 and hue = 0.
C19_Keys(state) == IF state = JNull THEN {} ELSE DOMAIN state

C19_RestoreResetsPhase ==
    (calls # << >> /\ calls[Len(calls)].op = "restore_state") =>
        LET call == calls[Len(calls)] IN
        /\ \A f \in DOMAIN save_state(ring) \ C19_Keys(call.state) :
               ring[f] = call.ring[f]
        /\ ring.position = 0
        /\ ring.hue = 0

\* C20: in pulse mode a tick never takes pulse_current out of the range from
\* pulse_min_brightness to pulse_max_brightness (a value at a bound is within
\* the range, so from the first bound on the value stays within it), and a
\* tick changes pulse_direction only when it leaves pulse_current at a bound:
\* to -1 at pulse_max_brightness, to 1 at pulse_min_brightness.
C20_InRange(r) ==
    /\ r.pulse_min_brightness <= r.pulse_current
    /\ r.pulse_current <= r.pulse_max_brightness

C20_PulseBounds ==
    [][ (/\ calls' # calls
         /\ calls'[Len(calls')].op = "update"
         /\ ring.mode = "pulse"
         /\ ring.pulse_min_brightness <= ring.pulse_max_brightness) =>
            /\ ring'.pulse_min_brightness = ring.pulse_min_brightness
            /\ ring'.pulse_max_brightness = ring.pulse_max_brightness
            /\ C20_InRange(ring) => C20_InRange(ring')
            /\ ring'.pulse_current \in
                   {ring.pulse_min_brightness, ring.pulse_max_brightness}
                   => C20_InRange(ring')
            /\ ring'.pulse_direction # ring.pulse_direction =>
                   \/ /\ ring'.pulse_direction = -1
                      /\ ring'.pulse_current = ring.pulse_max_brightness
                   \/ /\ ring'.pulse_direction = 1
                      /\ ring'.pulse_current = ring.pulse_min_brightness ]_vars

\* range 20..120 with step 50, from 10: up to the clamp at 120, down to the
\* clamp at 20, and up again
C20_Witness ==
    /\ Len(calls) = 7
    /\ calls[1].op = "mqtt_callback"
    /\ \A k \in 2..7 : calls[k].op = "update"
    /\ ring.pulse_min_brightness = 20
    /\ ring.pulse_max_brightness = 120
    /\ ring.pulse_current = 70
    /\ ring.pulse_direction = 1

\* C21: whatever the update server answers, the boot check of init_ota lets
\* no exception escape main(), and a periodic_check() call in the connected
\* loop lets none reach the except clause that reconnects MQTT.
C21_OtaFaultsContained ==
    [][ /\ pc = "init_ota" => pc' # "crashed"
        /\ AtStage("ota") => pc' # "reconnect" ]_vars

\* C22: main() reaches machine.reset() in two ways only: from an OTA call
\* (the boot check, a periodic check or the update command) whose update had
\* every download succeed, and from the portal loop when handle_web_request
\* received a configuration.  No other step restarts the device.
C22_OnlyTwoRestarts ==
    [][ (pc' = "reset" /\ pc # "reset") =>
            \/ /\ \/ pc = "init_ota"
                  \/ AtStage("ota")
                  \/ AtStage("mqtt") /\ ota_called' = "update"
               /\ ota_log'.outcome = "reset"
               /\ ota_log'.downloads_ok
            \/ /\ AtApStage("web")
               /\ web_request'.kind = "configure"
               /\ web_request'.ssid
               /\ web_request'.password
               /\ saved_files' # {} ]_vars

\* the update command, received in a later pass of the connected loop,
\* restarted the device after its downloads succeeded
C22_Witness ==
    /\ pc = "reset"
    /\ ota_called = "update"
    /\ ota_log.downloads_ok
    /\ iter >= 1

\* C23: the response to a well-formed query with one question, read as a DNS
\* message, carries the query's transaction id, the flags of a response
\* without error, the query's question section, an answer count of 1, and
\* after the question exactly one record, of type A, class IN and length 4,
\* whose four address bytes are the AP address -- whatever name was asked.
RECURSIVE C23_NameEnd(_, _)
C23_NameEnd(msg, i) ==
    IF i > Len(msg) THEN i
    ELSE IF msg[i] = 0 THEN i
    ELSE IF msg[i] >= 192 THEN i + 1
    ELSE C23_NameEnd(msg, i + msg[i] + 1)

\* the resource record that starts at index i of msg
C23_Record(msg, i) ==
    LET e == C23_NameEnd(msg, i)
    IN  [type |-> SubSeq(msg, e + 1, e + 2),
         class |-> SubSeq(msg, e + 3, e + 4),
         length |-> SubSeq(msg, e + 9, e + 10),
         data |-> SubSeq(msg, e + 11, Len(msg))]

C23_Address(ap_ip) ==
    [k \in 1..4 |-> IntValue(ap_ip[k])]

C23_DnsAnswer ==
    \A k \in DOMAIN calls :
        calls[k].op = "handle_dns_request" =>
            LET q == calls[k].query
                r == calls[k].response
                question == q.name \o q.type \o <<0, 1>>
                qend == C23_NameEnd(r, 13) + 4
                answer == C23_Record(r, qend + 1)
            IN  /\ r # "none"
                /\ SubSeq(r, 1, 2) = q.id
                /\ SubSeq(r, 3, 4) = <<129, 128>>
                /\ SubSeq(r, 5, 6) = <<0, 1>>
                /\ SubSeq(r, 7, 8) = <<0, 1>>
                /\ SubSeq(r, 13, qend) = question
                /\ answer.type = <<0, 1>>
                /\ answer.class = <<0, 1>>
                /\ answer.length = <<0, 4>>
                /\ answer.data = C23_Address(calls[k].ap_ip)

\* C24: a set_direction call with an unknown string or a number other than
\* 1 and -1 leaves the whole ring as it was; with cw or 1 it sets direction
\* to 1, with ccw or -1 to -1, with reverse to the negation of the current
\* direction, and in each case it changes no other field.
C24_Expected(current, direction) ==
    CASE direction \in { JStr("cw"), JStr("CW"), JStr("clockwise"),
                         JStr("Clockwise"), JInt(1) } -> 1
      [] direction \in { JStr("ccw"), JStr("counter-clockwise"),
                         JStr("counterclockwise"), JInt(-1) } -> -1
      [] direction \in { JStr("reverse"), JStr("Reverse") } -> 0 - current
      [] OTHER -> current

C24_SetDirection ==
    [][ (Len(calls') = Len(calls) + 1
            /\ calls'[Len(calls')].op = "set_direction") =>
          ring' = [ring EXCEPT !.direction =
                      C24_Expected(ring.direction,
                                   calls'[Len(calls')].direction)] ]_vars

\* reverse turned the ring counter-clockwise, and a following call with the
\* number 2 or the string "up" left it so
C24_Witness ==
    /\ Len(calls) = 2
    /\ calls[1] = [op |-> "set_direction", direction |-> JStr("reverse")]
    /\ calls[2].op = "set_direction"
    /\ calls[2].direction \in { JInt(2), JStr("up") }
    /\ ring.direction = -1

\* C25: in the connected loop, whenever the WiFi health poll is due
\* (5000 ms since the last sample) the link status is sampled again in some
\* later pass, also in runs where MQTT operations keep raising and every
\* reconnect succeeds.
C25_WifiPollNotStarved ==
    WifiCheckDue(now, last_wifi_check) ~> (wifi_log # "none")

\* C26: at the heartbeat test of the connected loop a heartbeat is published
\* on <base>/heartbeat only if at least 60000 ms have passed since
\* last_heartbeat; if that much has passed the publish is attempted, and it
\* either succeeds, which sets last_heartbeat to the current time, or raises,
\* which leaves last_heartbeat as it was (so the test is true again at the
\* next pass that reaches it).  Nothing else in the loop moves last_heartbeat.
C26_Heartbeat ==
    [][ LET elapsed == now - last_heartbeat
            sent == published' = Append(published, base_topic \o <<"heartbeat">>)
        IN  /\ AtStage("heartbeat") =>
                /\ sent => elapsed >= 60000
                /\ elapsed >= 60000 =>
                      \/ sent /\ last_heartbeat' = now /\ pc' = "loop"
                      \/ /\ pc' = "reconnect"
                         /\ published' = published
                         /\ last_heartbeat' = last_heartbeat
                /\ elapsed < 60000 =>
                      pc' = "loop" /\ last_heartbeat' = last_heartbeat
            /\ (pc \in {"loop", "reconnect"} /\ ~AtStage("heartbeat")) =>
                  last_heartbeat' = last_heartbeat ]_vars

\* a pass raised, the reconnect succeeded, and a later pass published the
\* heartbeat that was due
C26_Witness ==
    /\ pc = "loop"
    /\ raised >= 1
    /\ reconnect_result = "ok"
    /\ published # << >>
    /\ published[Len(published)] = base_topic \o <<"heartbeat">>
    /\ last_heartbeat = now
    /\ now >= 60000

\* C27: a poll that finds the button level changed at least the debounce
\* interval after the previously accepted change accepts the change, however
\* long the rest was -- also a rest of half the tick period or more.
\* C27_Idle(k) is the true time between the previously accepted change (or
\* the start) and poll k, counted up to one tick period.
RECURSIVE C27_Idle(_)
C27_Idle(k) ==
    IF k = 1 \/ calls[k - 1].after # calls[k - 1].before
    THEN calls[k].d
    ELSE Min2(TICKS_PERIOD, calls[k].d + C27_Idle(k - 1))

C27_AcceptedAfterAnyRest ==
    \A k \in DOMAIN calls :
        ( /\ calls[k].op = "check_button"
          /\ calls[k].level # calls[k].before
          /\ C27_Idle(k) >= DEBOUNCE_TIME ) =>
            calls[k].after = calls[k].level

\* C28: a poll that reads a level different from the debounced state 50 ms
\* or more after the previously accepted change accepts it: the debounced
\* state becomes the level read -- in particular at exactly 50 ms.
C28_AcceptedFromFifty ==
    [][ (/\ __button_state_change_time__ > 0
         /\ raw_level' # __button_last_state__
         /\ now' - __button_state_change_time__ >= 50) =>
            /\ __button_last_state__' = raw_level'
            /\ __button_state_change_time__' = now'
      ]_vars

\* C29: an update() call that fires in rainbow mode moves the hue phase by
\* 2 * direction modulo 256: by +2 when the direction is 1, by -2 when it
\* is -1.
C29_RainbowStep ==
    [][ ( /\ Len(calls') = Len(calls) + 1
          /\ calls'[Len(calls')].op = "update"
          /\ ring.mode = "rainbow_cycle"
          /\ ring'.last_update # ring.last_update ) =>
            ring'.hue = (ring.hue + 2 * ring.direction) % 256 ]_vars

\* C30: whatever the base topic, a message on <base>/ring/<cmd> runs the ring
\* command <cmd> (static, flash and rainbow put the ring in mode solid, flash
\* and rainbow_cycle) and no OTA command; a message on <base>/ota/<cmd> runs
\* the OTA command <cmd> and leaves the ring alone; a message on any other
\* topic under the base changes neither the ring nor what OTA command runs.
C30_Mode(cmd) ==
    CASE cmd = "static" -> "solid"
      [] cmd = "flash" -> "flash"
      [] cmd = "rainbow" -> "rainbow_cycle"

C30_RoutingByShape ==
    [][ ( /\ Len(calls') = Len(calls) + 1
          /\ calls'[Len(calls')].op = "mqtt_callback" ) =>
            LET rest == calls'[Len(calls')].rest
            IN  IF Len(rest) = 2 /\ rest[1] = "ring"
                THEN ring'.mode = C30_Mode(rest[2]) /\ ota_called' = "none"
                ELSE IF Len(rest) = 2 /\ rest[1] = "ota"
                THEN ring' = ring /\ ota_called' = rest[2]
                ELSE ring' = ring /\ ota_called' = "none" ]_vars

\* C31: a ring command (other than reset) whose payload starts with '{' and
\* is not valid JSON still switches the ring to the command's mode, leaves
\* update_interval, brightness and direction as they were, and applies the
\* parser's default colour, white, as the command's colour.
C31_Mode(cmd) ==
    CASE cmd = "static" -> "solid"
      [] cmd = "rainbow" -> "rainbow_cycle"
      [] OTHER -> cmd

C31_ColorApplied(cmd, r) ==
    CASE cmd = "chase" -> r.chase_color
      [] cmd = "static" -> r.solid_color
      [] cmd = "flash" -> r.flash_color
      [] cmd = "comet" -> r.comet_color
      [] cmd = "pulse" -> r.pulse_color
      [] cmd = "spinner" -> r.spinner_colors[1]
      [] OTHER -> <<255, 255, 255>>

C31_MalformedPayload ==
    [][ ( /\ Len(calls') = Len(calls) + 1
          /\ calls'[Len(calls')].op = "mqtt_callback"
          /\ calls'[Len(calls')].payload.k = "bad"
          /\ calls'[Len(calls')].topic[4] # "reset" ) =>
            LET cmd == calls'[Len(calls')].topic[4]
            IN  /\ ring'.mode = C31_Mode(cmd)
                /\ ring'.update_interval = ring.update_interval
                /\ ring'.brightness = ring.brightness
                /\ ring'.direction = ring.direction
                /\ C31_ColorApplied(cmd, ring') = <<255, 255, 255>> ]_vars

\* C32: whatever ring commands were received, with whatever payload values,
\* every animation tick of the connected loop completes: ring.update() at
\* the top of a pass never raises, so the pass goes on to the button.
C32_TicksComplete ==
    [][ AtStage("update") =>
            /\ pc' = "loop"
            /\ polled' = <<"update">> ]_vars

\* C33: in the connected loop a poll that classifies a short press reverses
\* the ring's direction (once, and changes nothing else of the ring) whether
\* or not the publish succeeds; when the publish succeeds exactly one
\* message goes out, on <base>/button/1.  A long or very long press leaves
\* the ring as it is and publishes on <base>/button/2 or <base>/button/3.
C33_Suffix(press) ==
    CASE press = "short" -> "1"
      [] press = "long" -> "2"
      [] press = "very_long" -> "3"

C33_ButtonActions ==
    [][ (AtStage("button") /\ button_press' # "none") =>
            /\ ring' = IF button_press' = "short"
                       THEN [ring EXCEPT !.direction = 0 - ring.direction]
                       ELSE ring
            /\ pc' = "loop" =>
                  published' =
                      Append(published,
                             base_topic \o <<"button", C33_Suffix(button_press')>>)
      ]_vars

\* C34: a connection accepted by handle_web_request whose request was read
\* (and whose client is still there to be sent to) gets exactly one response:
\* the success page for a POST /configure with body, ssid, password and a
\* port that is a number; the redirect for a captive-portal probe; the
\* configuration form for anything else, a POST /configure without ssid
\* included.
C34_Readable(req) ==
    /\ req.kind \in {"configure", "probe", "other"}
    /\ req.kind = "configure" => req.send_ok

C34_OneResponse ==
    [][ (AtApStage("web") /\ C34_Readable(web_request')) =>
            responses' =
                IF /\ web_request'.kind = "configure"
                   /\ web_request'.body
                   /\ web_request'.ssid
                   /\ web_request'.password
                   /\ web_request'.port # "bad"
                THEN <<"success_page">>
                ELSE IF web_request'.kind = "probe" THEN <<"redirect">>
                ELSE <<"web_page">> ]_vars

\* C35: an attempt that aborted on a failed download leaves the version
\* record as it was, so the next cycle starts a new attempt with the whole
\* file list of the manifest: the new attempt requests the named files from
\* the first one on, those the aborted attempt had already replaced
\* included, and reboots only after requesting every one of them.
C35_RetryFromTheStart ==
    /\ (upd.pc = "returned" /\ ~upd.success) => version_record = "old"
    /\ calls # << >> =>
         LET named == SelectSeq(calls[1].files, LAMBDA f : f # "")
         IN  /\ upd.files = calls[1].files
             /\ Len(upd.requested) <= Len(named)
             /\ upd.requested = SubSeq(named, 1, Len(upd.requested))
             /\ upd.pc = "reset" => upd.requested = named

\* the first attempt replaced main.py and aborted at led_ring.py; the second
\* attempt downloaded both again and is about to reboot
C35_Witness ==
    /\ calls # << >>
    /\ calls[1].files = <<"main.py", "led_ring.py">>
    /\ calls[1].downloaded = <<"main.py">>
    /\ upd.pc = "reset"
    /\ upd.requested = <<"main.py", "led_ring.py">>
    /\ version_record = "new"

\* ---------------------------------------------------------------------
\* The entry points of ota_handler.py on their own, under every setting of
\* ota_config.json and every behaviour of the update server.  One
\* configuration is in force for all the calls of a behaviour.  Each call is
\* logged with what it returned:
\*   init_ota        the ring it leaves and "ok" | "reset" | "raise"
\*   periodic_check  called when the interval has elapsed
\*   check, update   the MQTT commands ota_check and ota_update
\*   apply_update    apply_update() without update_info: it checks first
OtaEntry ==
    /\ Len(calls) < MaxCommands
    /\ \E op \in {"init_ota", "periodic_check", "check", "update",
                  "apply_update"},
          cfg \in { c \in [enabled : BOOLEAN, has_url : BOOLEAN,
                           check_on_boot : BOOLEAN, auto_update : BOOLEAN] :
                      calls # << >> => c = calls[1].config },
          env \in OtaEnvs :
         LET c == check_for_updates(cfg, env)
             o == init_ota(ring, cfg, now, env, 0)
             p == periodic_check(cfg, 0, 1, 1, env, 0)
             m == ota_command(op, "client", "config", cfg, env)
             result ==
                 CASE op = "init_ota" ->
                        [outcome |-> o.outcome, touched |-> o.ring # ring]
                   [] op = "periodic_check" ->
                        [outcome |-> p.outcome, touched |-> FALSE]
                   [] op \in {"check", "update"} ->
                        [outcome |-> m.outcome, touched |-> m.touched]
                   [] op = "apply_update" ->
                        [outcome |-> IF c.kind = "raise" THEN "raise"
                                     ELSE apply_update(cfg, c, env),
                         touched |-> FALSE]
         IN  calls' = Append(calls, [op |-> op, config |-> cfg, env |-> env,
                                     outcome |-> result.outcome,
                                     touched |-> result.touched])
    /\ UNCHANGED << pc, stage, polled, iter, ap_iter, bootVars, ring, mqttVars,
                    last_heartbeat, wifiVars, now, buttonVars, button_press,
                    published, ota_called, _ota_config, _last_check_time,
                    _next_check_interval, ota_log, fs, tmp, version_record,
                    upd, local_version, remote_version, update_available,
                    apVars, excVars >>

SpecGate == Init /\ [][OtaEntry]_vars

\* C36: while the OTA configuration has enabled = false no entry point
\* reaches the update server: whatever the server would answer (a manifest
\* that makes the check raise, a newer version whose files all download),
\* init_ota leaves the ring alone and returns normally, periodic_check only
\* reschedules, the check and update commands do not stamp the check time,
\* and nothing is applied; and init_ota and periodic_check apply an available
\* update only when auto_update is true.
C36_OtaGating ==
    \A k \in DOMAIN calls :
        LET call == calls[k] IN
        /\ ~call.config.enabled =>
              /\ ~call.touched
              /\ call.outcome = CASE call.op = "init_ota" -> "ok"
                                  [] call.op = "apply_update" -> "false"
                                  [] OTHER -> "done"
        /\ (call.op \in {"init_ota", "periodic_check"}
               /\ call.outcome = "reset") => call.config.auto_update

C36_Witness ==
    /\ Len(calls) = 2
    /\ ~calls[1].config.enabled /\ calls[1].config.has_url
    /\ calls[1].config.check_on_boot /\ calls[1].config.auto_update
    /\ calls[1].op = "init_ota" /\ calls[2].op = "update"
    /\ calls[1].env = [manifest |-> "newer", downloads_ok |-> TRUE]
    /\ calls[2].env = [manifest |-> "malformed", downloads_ok |-> FALSE]
    /\ calls[1].outcome = "ok" /\ calls[2].outcome = "done"

\* C37: configuration persistence in handle_web_request is all or nothing:
\* a call either writes the WiFi, MQTT and OTA configuration and returns True
\* (main() resets), or writes none of them and returns False (the portal
\* keeps running).
C37_AllOrNothing ==
    [][ AtApStage("web") =>
            \/ /\ pc' = "reset"
               /\ {"wifi", "mqtt", "ota"} \subseteq saved_files'
            \/ /\ pc' # "reset"
               /\ saved_files' = saved_files ]_vars

\* C38: a WiFi-loss episode never strands the fault indicator.  The snapshot
\* is restored only by the health poll of the connected loop (main.py lines
\* 168-174) and main() never enters that loop a second time, so the episode
\* can still end only while control is in the loop or its except clause, or
\* when the device restarts: as long as a snapshot is held and the yellow
\* pulse is forced, main() has not left the connected loop for good.
C38_EpisodeCanEnd ==
    (saved_ring_state # JNull /\ ~wifi_was_connected) =>
        pc \in {"loop", "reconnect", "reset"}

\* C39: after a successful reconnect inside the connected loop the device is
\* in the remote-control state it had before the failure: the message
\* callback is installed and every topic filter subscribed at startup is
\* still in force, so that a command published on any of them is delivered.
C39_StillSubscribed ==
    (pc = "loop" /\ reconnect_result = "ok") =>
        /\ callback_set
        /\ \A topic \in ring_topics : Delivered(subscriptions, topic)

====
